---- MODULE Spec2Model ----
(***************************************************************************)
(* BufferGeometry (src/src/core/BufferGeometry.js) and BoxGeometry         *)
(* (src/unnamed/part_000) as a state machine.                              *)
(*                                                                         *)
(* A geometry is a record with the fields of the class: type, parameters,  *)
(* index, attributes, morphAttributes, morphTargetsRelative, groups,       *)
(* boundingBox, boundingSphere, drawRange.  Every method is an operator    *)
(* on such a record, translated from the method's body, and an action      *)
(* applies it to the geometry `geom`.                                      *)
(*                                                                         *)
(* Number representation.  All buffer values are integers.                 *)
(*  - A nullable field holds Null (<<>>) or Some(v) (<<v>>).               *)
(*  - Vertex indices are 0-based as in the code; array slot k of the       *)
(*    code is element k+1 of the model's sequence.                         *)
(*  - normalize() cannot give unit length in integers: the model keeps     *)
(*    the primitive integer vector of the same direction, so that two      *)
(*    normalized vectors are equal exactly when their directions are.      *)
(*  - The centre of a bounding sphere is a box centroid, (min+max)/2: the  *)
(*    model keeps twice the centre (center2) and four times the squared    *)
(*    radius (radiusSq4); the radius itself is the square root of a        *)
(*    quarter of radiusSq4.                                                *)
(*  - Box lengths are in units of 1/PosDen and uv coordinates in units of  *)
(*    1/UvDen, so that the divisions by the segment counts are exact.      *)
(*  - Reads outside a buffer (NaN in the code) are not modelled: the       *)
(*    actions that read buffers are guarded by the ...Readable conditions. *)
(*  - A geometry holds its buffers by value, except where two geometries  *)
(*    exist (copy, clone): there it holds references into `objects`, so    *)
(*    that two geometries sharing a buffer can be told from two holding    *)
(*    equal ones.                                                          *)
(***************************************************************************)
EXTENDS Integers, Sequences, FiniteSets, TLC

\* geom:    the geometry the operations are called on.
\* result:  what the last operation returned, when that is not `this`.
\* console: what the last operation reported (console.warn, console.error).
\* history: the names of the operations called since construction, in order.
\* args:    the arguments of the last call, where a property speaks of them.
\* other:   a second geometry, where an operation involves two (copy, clone).
\* objects: the objects that `geom` and `other` refer to when both exist:
\*          only there does it matter which of them share an object.
VARIABLES geom, result, console, history, args, other, objects

vars == <<geom, result, console, history, args, other, objects>>

----------------------------------------------------------------------------
(* Bounds of the model. *)

\* Largest segment count of a BoxGeometry.
MaxSeg == 2
\* Largest number of operations applied to one geometry.
MaxSteps == 3
\* Largest number of vertices of a drawn position buffer.
MaxVerts == 2
\* Largest number of morph-target buffers.
MaxMorphs == 2
\* Largest number of draw groups added by addGroup.
MaxGroups == 2
\* Largest number of triangles of a drawn index.
MaxTriangles == 2
\* Largest number of points handed to setFromPoints.
MaxPoints == 4

\* JavaScript's Infinity, as a number larger than every modelled value.
Infinity == 1000000

Null == <<>>
Some(v) == <<v>>
Value(o) == o[1]

\* TRUE, whatever v is.  TLC evaluates the argument of an operator only when it is
\* used: a loop tests evaluated(v) on the value it hands to its next round, so that
\* the value is computed round by round, as the code computes it.
evaluated(v) == v = v

----------------------------------------------------------------------------
(* Vector3 of the math library. *)

Min(a, b) == IF a < b THEN a ELSE b
Max(a, b) == IF a > b THEN a ELSE b
Abs(n) == IF n < 0 THEN -n ELSE n

RECURSIVE Gcd(_, _)
Gcd(a, b) == IF b = 0 THEN a ELSE Gcd(b, a % b)

RECURSIVE Lcm1to(_)
Lcm1to(n) == IF n <= 1 THEN 1 ELSE LET l == Lcm1to(n - 1) IN (l * n) \div Gcd(l, n)

addVectors(a, b) == <<a[1] + b[1], a[2] + b[2], a[3] + b[3]>>
subVectors(a, b) == <<a[1] - b[1], a[2] - b[2], a[3] - b[3]>>
multiplyScalar(a, s) == <<a[1] * s, a[2] * s, a[3] * s>>
dot(a, b) == a[1] * b[1] + a[2] * b[2] + a[3] * b[3]
crossVectors(a, b) ==
  <<a[2] * b[3] - a[3] * b[2], a[3] * b[1] - a[1] * b[3], a[1] * b[2] - a[2] * b[1]>>
distanceToSquared(a, b) == dot(subVectors(a, b), subVectors(a, b))

\* normalize(): divideScalar(length() || 1); the primitive vector of the direction.
normalize(v) ==
  LET g == Gcd(Gcd(Abs(v[1]), Abs(v[2])), Abs(v[3]))
  IN IF g = 0 THEN v ELSE <<v[1] \div g, v[2] \div g, v[3] \div g>>

----------------------------------------------------------------------------
(* BufferAttribute: a flat array, an item size and a normalized flag. *)

BufferAttribute(array, itemSize, normalized) ==
  [array |-> array, itemSize |-> itemSize, normalized |-> normalized,
   type |-> "Float32Array"]
Float32BufferAttribute(array, itemSize) == BufferAttribute(array, itemSize, FALSE)
Uint16BufferAttribute(array, itemSize) ==
  [array |-> array, itemSize |-> itemSize, normalized |-> FALSE, type |-> "Uint16Array"]
Uint32BufferAttribute(array, itemSize) ==
  [array |-> array, itemSize |-> itemSize, normalized |-> FALSE, type |-> "Uint32Array"]

count(attribute) == Len(attribute.array) \div attribute.itemSize
getX(attribute, i) == attribute.array[i * attribute.itemSize + 1]
getComponent(attribute, i, j) == attribute.array[i * attribute.itemSize + j + 1]
\* Vector3.fromBufferAttribute(attribute, i)
fromBufferAttribute(attribute, i) ==
  <<getComponent(attribute, i, 0), getComponent(attribute, i, 1), getComponent(attribute, i, 2)>>
\* Vector2.fromBufferAttribute(attribute, i)
fromBufferAttribute2(attribute, i) ==
  <<getComponent(attribute, i, 0), getComponent(attribute, i, 1)>>
\* setXYZ(i, x, y, z): a write outside the array is dropped, as a typed array does.
writeAt(array, at, values) ==
  IF at >= Len(array) THEN array
  ELSE SubSeq(array, 1, at)
         \o SubSeq(values, 1, Min(Len(values), Len(array) - at))
         \o SubSeq(array, at + Len(values) + 1, Len(array))
setXYZ(attribute, i, v) ==
  [attribute EXCEPT !.array = writeAt(@, i * attribute.itemSize, <<v[1], v[2], v[3]>>)]
setXYZW(attribute, i, v, w) ==
  [attribute EXCEPT !.array = writeAt(@, i * attribute.itemSize, <<v[1], v[2], v[3], w>>)]

\* The flat array of a list of tuples, and an array of n zeros (new Float32Array(n)).
RECURSIVE Flatten(_)
Flatten(tuples) == IF tuples = <<>> THEN <<>> ELSE Head(tuples) \o Flatten(Tail(tuples))
Zeros(n) == [k \in 1..n |-> 0]

----------------------------------------------------------------------------
(* Box3 and Sphere of the math library. *)

makeEmpty ==
  [min |-> <<Infinity, Infinity, Infinity>>, max |-> <<-Infinity, -Infinity, -Infinity>>]
isEmpty(box) ==
  box.max[1] < box.min[1] \/ box.max[2] < box.min[2] \/ box.max[3] < box.min[3]
expandByPoint(box, p) ==
  [min |-> <<Min(box.min[1], p[1]), Min(box.min[2], p[2]), Min(box.min[3], p[3])>>,
   max |-> <<Max(box.max[1], p[1]), Max(box.max[2], p[2]), Max(box.max[3], p[3])>>]

RECURSIVE expandByVertices(_, _, _)
expandByVertices(box, attribute, i) ==
  IF i >= count(attribute) THEN box
  ELSE LET next == expandByPoint(box, fromBufferAttribute(attribute, i))
       IN IF evaluated(next) THEN expandByVertices(next, attribute, i + 1) ELSE next
setFromBufferAttribute(attribute) == expandByVertices(makeEmpty, attribute, 0)

\* getCenter(): (0,0,0) for an empty box, else (min+max)/2; the model keeps twice it.
getCenter2(box) == IF isEmpty(box) THEN <<0, 0, 0>> ELSE addVectors(box.min, box.max)

\* new Sphere(): centre at the origin, radius -1 (an empty sphere).
Sphere == [center2 |-> <<0, 0, 0>>, radiusSq4 |-> -1]

----------------------------------------------------------------------------
(* The geometry record. *)

NoAttributes == [n \in {} |-> 0]

\* constructor(): the state of a new BufferGeometry.
BufferGeometry ==
  [type |-> "BufferGeometry",
   parameters |-> Null,
   index |-> Null,
   attributes |-> NoAttributes,
   morphAttributes |-> NoAttributes,
   morphTargetsRelative |-> FALSE,
   groups |-> <<>>,
   boundingBox |-> Null,
   boundingSphere |-> Null,
   drawRange |-> [start |-> 0, count |-> Infinity]]

hasAttribute(g, name) == name \in DOMAIN g.attributes
getAttribute(g, name) == g.attributes[name]
\* A variant that drops the bounding volumes with the data they were made of.
setAttributeInvalidating(g, name, attribute) ==
  [g EXCEPT !.attributes =
     [n \in DOMAIN g.attributes \cup {name} |->
        IF n = name THEN attribute ELSE g.attributes[n]],
            !.boundingBox = IF name = "position" THEN Null ELSE @,
            !.boundingSphere = IF name = "position" THEN Null ELSE @]
setAttribute(g, name, attribute) ==
  [g EXCEPT !.attributes =
     [n \in DOMAIN g.attributes \cup {name} |->
        IF n = name THEN attribute ELSE g.attributes[n]]]
deleteAttribute(g, name) ==
  [g EXCEPT !.attributes = [n \in DOMAIN g.attributes \ {name} |-> g.attributes[n]]]
\* What getAttribute(name) returns: the attribute, or undefined (Null).
getAttributeOrUndefined(g, name) ==
  IF name \in DOMAIN g.attributes THEN Some(g.attributes[name]) ELSE Null

\* arrayNeedsUint32(array): some value does not fit 16 bits.
arrayNeedsUint32(array) == \E k \in DOMAIN array : array[k] >= 65535
\* setIndex(index) with an array argument.
setIndex(g, array) ==
  [g EXCEPT !.index =
     Some(IF arrayNeedsUint32(array)
          THEN Uint32BufferAttribute(array, 1)
          ELSE Uint16BufferAttribute(array, 1))]

\* A variant that keeps the list ordered by start instead of by call.
addGroupPrepending(g, start, cnt, materialIndex) ==
  [g EXCEPT !.groups =
     <<[start |-> start, count |-> cnt, materialIndex |-> materialIndex]>> \o @]
addGroup(g, start, cnt, materialIndex) ==
  [g EXCEPT !.groups =
     Append(@, [start |-> start, count |-> cnt, materialIndex |-> materialIndex])]
\* The call addGroup(...arguments): materialIndex = 0 when it is omitted.
addGroupCall(g, arguments) ==
  addGroup(g, arguments[1], arguments[2],
           IF Len(arguments) >= 3 THEN arguments[3] ELSE 0)
clearGroups(g) == [g EXCEPT !.groups = <<>>]
setDrawRange(g, start, cnt) == [g EXCEPT !.drawRange = [start |-> start, count |-> cnt]]

\* this.morphAttributes.position, or no list at all.
morphAttributesPosition(g) ==
  IF "position" \in DOMAIN g.morphAttributes THEN g.morphAttributes["position"] ELSE <<>>

----------------------------------------------------------------------------
(* Bounding volumes. *)

\* The bounding box without the loop over the morph-target position buffers.
expandByMorphTargetsSkipped(box, morphs, relative, i) == box

\* The loop over the morph-target position buffers (the same in both methods):
\* relative targets expand by min+min and max+max, absolute ones by min and max.
RECURSIVE expandByMorphTargets(_, _, _, _)
expandByMorphTargets(box, morphs, relative, i) ==
  IF i > Len(morphs) THEN box
  ELSE LET morphBox == setFromBufferAttribute(morphs[i])
           next ==
             IF relative
             THEN LET b1 == expandByPoint(box, addVectors(box.min, morphBox.min))
                  IN expandByPoint(b1, addVectors(b1.max, morphBox.max))
             ELSE expandByPoint(expandByPoint(box, morphBox.min), morphBox.max)
       IN IF evaluated(next) THEN expandByMorphTargets(next, morphs, relative, i + 1)
          ELSE next

computeBoundingBox(g) ==
  IF hasAttribute(g, "position")
  THEN [g EXCEPT !.boundingBox =
          Some(expandByMorphTargets(setFromBufferAttribute(g.attributes["position"]),
                                    morphAttributesPosition(g),
                                    g.morphTargetsRelative, 1))]
  ELSE [g EXCEPT !.boundingBox = Some(makeEmpty)]

\* maxDistanceToPoints without the offset of relative morph targets.
RECURSIVE maxDistanceNoOffset(_, _, _, _, _)
maxDistanceNoOffset(maxRadiusSq, center2, attribute, offsets, j) ==
  IF j >= count(attribute) THEN maxRadiusSq
  ELSE LET v == fromBufferAttribute(attribute, j)
           next == Max(maxRadiusSq, distanceToSquared(center2, multiplyScalar(v, 2)))
       IN IF evaluated(next)
          THEN maxDistanceNoOffset(next, center2, attribute, offsets, j + 1)
          ELSE next

\* The largest of the squared distances (times 4) from center2/2 to the points.
RECURSIVE maxDistanceToPoints(_, _, _, _, _)
maxDistanceToPoints(maxRadiusSq, center2, attribute, offsets, j) ==
  IF j >= count(attribute) THEN maxRadiusSq
  ELSE LET v == fromBufferAttribute(attribute, j)
           p == IF offsets = Null THEN v
                ELSE addVectors(v, fromBufferAttribute(Value(offsets), j))
           next == Max(maxRadiusSq, distanceToSquared(center2, multiplyScalar(p, 2)))
       IN IF evaluated(next)
          THEN maxDistanceToPoints(next, center2, attribute, offsets, j + 1)
          ELSE next

RECURSIVE maxDistanceToMorphTargets(_, _, _, _, _, _)
maxDistanceToMorphTargets(maxRadiusSq, center2, position, morphs, relative, i) ==
  IF i > Len(morphs) THEN maxRadiusSq
  ELSE LET next == maxDistanceToPoints(maxRadiusSq, center2, morphs[i],
                                       IF relative THEN Some(position) ELSE Null, 0)
       IN IF evaluated(next)
          THEN maxDistanceToMorphTargets(next, center2, position, morphs, relative, i + 1)
          ELSE next

computeBoundingSphere(g) ==
  LET sphere == IF g.boundingSphere = Null THEN Sphere ELSE Value(g.boundingSphere)
  IN IF hasAttribute(g, "position")
     THEN LET position == g.attributes["position"]
              morphs == morphAttributesPosition(g)
              box == expandByMorphTargets(setFromBufferAttribute(position), morphs,
                                          g.morphTargetsRelative, 1)
              center2 == getCenter2(box)
              base == maxDistanceToPoints(0, center2, position, Null, 0)
              maxRadiusSq ==
                maxDistanceToMorphTargets(base, center2, position, morphs,
                                          g.morphTargetsRelative, 1)
          IN [g EXCEPT !.boundingSphere =
                Some([center2 |-> center2, radiusSq4 |-> maxRadiusSq])]
     ELSE [g EXCEPT !.boundingSphere = Some(sphere)]

----------------------------------------------------------------------------
(* Transforms.  A Matrix4 is its upper 3x3 part m (rows) and its translation t. *)

makeTranslation(x, y, z) ==
  [m |-> <<<<1, 0, 0>>, <<0, 1, 0>>, <<0, 0, 1>>>>, t |-> <<x, y, z>>]
makeScale(x, y, z) ==
  [m |-> <<<<x, 0, 0>>, <<0, y, 0>>, <<0, 0, z>>>>, t |-> <<0, 0, 0>>]
\* cos and sin of an angle given in quarter turns.
Cos90(q) == CASE q % 4 = 0 -> 1 [] q % 4 = 2 -> -1 [] OTHER -> 0
Sin90(q) == CASE q % 4 = 1 -> 1 [] q % 4 = 3 -> -1 [] OTHER -> 0
makeRotationX(q) ==
  [m |-> <<<<1, 0, 0>>, <<0, Cos90(q), -Sin90(q)>>, <<0, Sin90(q), Cos90(q)>>>>,
   t |-> <<0, 0, 0>>]
makeRotationY(q) ==
  [m |-> <<<<Cos90(q), 0, Sin90(q)>>, <<0, 1, 0>>, <<-Sin90(q), 0, Cos90(q)>>>>,
   t |-> <<0, 0, 0>>]
makeRotationZ(q) ==
  [m |-> <<<<Cos90(q), -Sin90(q), 0>>, <<Sin90(q), Cos90(q), 0>>, <<0, 0, 1>>>>,
   t |-> <<0, 0, 0>>]

\* The 3x3 matrix m applied to the vector v.
applyMatrix3(m, v) == <<dot(m[1], v), dot(m[2], v), dot(m[3], v)>>
determinant(m) == dot(m[1], crossVectors(m[2], m[3]))
\* getNormalMatrix(matrix): the transpose of the inverse of the upper 3x3 part, that
\* is its cofactor matrix divided by its determinant (the zero matrix when singular).
getNormalMatrix(matrix) ==
  LET m == matrix.m
      det == determinant(m)
      c1 == crossVectors(m[2], m[3])
      c2 == crossVectors(m[3], m[1])
      c3 == crossVectors(m[1], m[2])
      over(v) == <<v[1] \div det, v[2] \div det, v[3] \div det>>
  IN IF det = 0
     THEN <<<<0, 0, 0>>, <<0, 0, 0>>, <<0, 0, 0>>>>
     ELSE <<over(c1), over(c2), over(c3)>>

\* f applied to the first three components of every item of the attribute.
mapVertices(attribute, f(_)) ==
  [attribute EXCEPT !.array =
     [k \in DOMAIN attribute.array |->
        LET i == (k - 1) \div attribute.itemSize
            j == (k - 1) % attribute.itemSize
        IN IF j < 3 /\ i < count(attribute)
           THEN f(fromBufferAttribute(attribute, i))[j + 1]
           ELSE attribute.array[k]]]

\* The first part of applyMatrix4: position, normal and tangent are transformed.
transformAttributes(g, matrix) ==
  LET normalMatrix == getNormalMatrix(matrix)
      g1 == IF hasAttribute(g, "position")
            THEN setAttribute(g, "position",
                   mapVertices(g.attributes["position"],
                               LAMBDA v : addVectors(applyMatrix3(matrix.m, v), matrix.t)))
            ELSE g
      g2 == IF hasAttribute(g1, "normal")
            THEN setAttribute(g1, "normal",
                   mapVertices(g1.attributes["normal"],
                               LAMBDA v : applyMatrix3(normalMatrix, v)))
            ELSE g1
  IN IF hasAttribute(g2, "tangent")
     THEN setAttribute(g2, "tangent",
            mapVertices(g2.attributes["tangent"],
                        LAMBDA v : normalize(applyMatrix3(matrix.m, v))))
     ELSE g2

\* applyMatrix4 without the recomputation of the bounding volumes.
applyMatrix4StaleVolumes(g, matrix) == transformAttributes(g, matrix)

applyMatrix4(g, matrix) ==
  LET g3 == transformAttributes(g, matrix)
      g4 == IF g3.boundingBox # Null THEN computeBoundingBox(g3) ELSE g3
  IN IF g4.boundingSphere # Null THEN computeBoundingSphere(g4) ELSE g4

translate(g, x, y, z) == applyMatrix4(g, makeTranslation(x, y, z))
scale(g, x, y, z) == applyMatrix4(g, makeScale(x, y, z))
rotateX(g, q) == applyMatrix4(g, makeRotationX(q))
rotateY(g, q) == applyMatrix4(g, makeRotationY(q))
rotateZ(g, q) == applyMatrix4(g, makeRotationZ(q))

----------------------------------------------------------------------------
(* Vertex normals. *)

\* resetNormals without the loop that sets the existing normals to 0.
resetNormalsKept(g) ==
  IF hasAttribute(g, "normal")
  THEN g.attributes["normal"]
  ELSE BufferAttribute(Zeros(count(g.attributes["position"]) * 3), 3, FALSE)

\* The normal attribute computeVertexNormals starts from: a new zero-filled one,
\* or the existing one with x, y, z of every item set to 0.
resetNormals(g) ==
  IF hasAttribute(g, "normal")
  THEN mapVertices(g.attributes["normal"], LAMBDA v : <<0, 0, 0>>)
  ELSE BufferAttribute(Zeros(count(g.attributes["position"]) * 3), 3, FALSE)

\* The face normal of the triangle (vA, vB, vC): (pC - pB) x (pA - pB).
faceNormal(position, vA, vB, vC) ==
  LET pA == fromBufferAttribute(position, vA)
      pB == fromBufferAttribute(position, vB)
      pC == fromBufferAttribute(position, vC)
  IN crossVectors(subVectors(pC, pB), subVectors(pA, pB))

\* A variant of the indexed loop that gives every corner the face normal of
\* its last triangle instead of adding it.
RECURSIVE accumulateIndexedAssigning(_, _, _, _)
accumulateIndexedAssigning(normal, position, index, i) ==
  IF i >= count(index) THEN normal
  ELSE LET vA == getX(index, i)
           vB == getX(index, i + 1)
           vC == getX(index, i + 2)
           cb == faceNormal(position, vA, vB, vC)
           next == setXYZ(setXYZ(setXYZ(normal, vA, cb), vB, cb), vC, cb)
       IN IF evaluated(next) THEN accumulateIndexedAssigning(next, position, index, i + 3)
          ELSE next

\* The loop of the indexed case from index entry i on: the three normals are
\* read, the face normal is added to each, and they are written back in order.
RECURSIVE accumulateIndexed(_, _, _, _)
accumulateIndexed(normal, position, index, i) ==
  IF i >= count(index) THEN normal
  ELSE LET vA == getX(index, i)
           vB == getX(index, i + 1)
           vC == getX(index, i + 2)
           cb == faceNormal(position, vA, vB, vC)
           nA == addVectors(fromBufferAttribute(normal, vA), cb)
           nB == addVectors(fromBufferAttribute(normal, vB), cb)
           nC == addVectors(fromBufferAttribute(normal, vC), cb)
           next == setXYZ(setXYZ(setXYZ(normal, vA, nA), vB, nB), vC, nC)
       IN IF evaluated(next) THEN accumulateIndexed(next, position, index, i + 3)
          ELSE next

\* The loop of the non-indexed case: every three vertices get their face normal.
RECURSIVE assignFlat(_, _, _)
assignFlat(normal, position, i) ==
  IF i >= count(position) THEN normal
  ELSE LET cb == faceNormal(position, i, i + 1, i + 2)
           next == setXYZ(setXYZ(setXYZ(normal, i, cb), i + 1, cb), i + 2, cb)
       IN IF evaluated(next) THEN assignFlat(next, position, i + 3) ELSE next

\* The normal attribute before normalizeNormals().
accumulatedNormals(g) ==
  IF g.index # Null
  THEN accumulateIndexed(resetNormals(g), g.attributes["position"], Value(g.index), 0)
  ELSE assignFlat(resetNormals(g), g.attributes["position"], 0)

normalizeNormals(normals) == mapVertices(normals, LAMBDA v : normalize(v))

computeVertexNormals(g) ==
  IF hasAttribute(g, "position")
  THEN setAttribute(g, "normal", normalizeNormals(accumulatedNormals(g)))
  ELSE g

----------------------------------------------------------------------------
(* Tangents.  The accumulated tangent and bitangent of a vertex are rational: *)
(* a vector n over a denominator d > 0, kept in lowest terms.                 *)

RatZero == [n |-> <<0, 0, 0>>, d |-> 1]
\* The vector v divided by den (den # 0), in lowest terms with d > 0.
Rat(v, den) ==
  LET s == IF den < 0 THEN -1 ELSE 1
      g == Gcd(Gcd(Gcd(Abs(v[1]), Abs(v[2])), Abs(v[3])), Abs(den))
  IN [n |-> <<(s * v[1]) \div g, (s * v[2]) \div g, (s * v[3]) \div g>>,
      d |-> Abs(den) \div g]
RatAdd(a, b) ==
  Rat(addVectors(multiplyScalar(a.n, b.d), multiplyScalar(b.n, a.d)), a.d * b.d)

\* The scale factor r = 1.0 / (uvB.x * uvC.y - uvC.x * uvB.y) is finite exactly
\* when the divisor is not 0.
uvDeterminant(uv, a, b, c) ==
  LET uvA == fromBufferAttribute2(uv, a)
      uvB == <<fromBufferAttribute2(uv, b)[1] - uvA[1], fromBufferAttribute2(uv, b)[2] - uvA[2]>>
      uvC == <<fromBufferAttribute2(uv, c)[1] - uvA[1], fromBufferAttribute2(uv, c)[2] - uvA[2]>>
  IN uvB[1] * uvC[2] - uvC[1] * uvB[2]
isFinite(divisor) == divisor # 0

\* sdir and tdir of the triangle (a, b, c).
triangleDirections(position, uv, a, b, c) ==
  LET vA == fromBufferAttribute(position, a)
      vB == subVectors(fromBufferAttribute(position, b), vA)
      vC == subVectors(fromBufferAttribute(position, c), vA)
      uvA == fromBufferAttribute2(uv, a)
      uvB == <<fromBufferAttribute2(uv, b)[1] - uvA[1], fromBufferAttribute2(uv, b)[2] - uvA[2]>>
      uvC == <<fromBufferAttribute2(uv, c)[1] - uvA[1], fromBufferAttribute2(uv, c)[2] - uvA[2]>>
      det == uvDeterminant(uv, a, b, c)
  IN [sdir |-> Rat(addVectors(multiplyScalar(vB, uvC[2]), multiplyScalar(vC, -uvB[2])), det),
      tdir |-> Rat(addVectors(multiplyScalar(vC, uvB[1]), multiplyScalar(vB, -uvC[1])), det)]

\* tan[a], tan[b], tan[c] each get dir added, one after the other.
addAtCorners(tan, a, b, c, dir) ==
  LET t1 == [tan EXCEPT ![a] = RatAdd(@, dir)]
      t2 == [t1 EXCEPT ![b] = RatAdd(@, dir)]
  IN [t2 EXCEPT ![c] = RatAdd(@, dir)]

\* A variant of handleTriangle that does not skip: where r is not finite it
\* adds the edges of the triangle unscaled.
handleTriangleNeverSkipping(tans, position, uv, a, b, c) ==
  LET vA == fromBufferAttribute(position, a)
      dirs == IF isFinite(uvDeterminant(uv, a, b, c))
              THEN triangleDirections(position, uv, a, b, c)
              ELSE [sdir |-> Rat(subVectors(fromBufferAttribute(position, b), vA), 1),
                    tdir |-> Rat(subVectors(fromBufferAttribute(position, c), vA), 1)]
  IN [tan1 |-> addAtCorners(tans.tan1, a, b, c, dirs.sdir),
      tan2 |-> addAtCorners(tans.tan2, a, b, c, dirs.tdir)]

\* handleTriangle(a, b, c) on the totals tans = [tan1, tan2].
handleTriangle(tans, position, uv, a, b, c) ==
  IF ~isFinite(uvDeterminant(uv, a, b, c)) THEN tans
  ELSE LET dirs == triangleDirections(position, uv, a, b, c)
       IN [tan1 |-> addAtCorners(tans.tan1, a, b, c, dirs.sdir),
           tan2 |-> addAtCorners(tans.tan2, a, b, c, dirs.tdir)]

\* The groups the two passes run over: the draw groups, or the whole index.
tangentGroups(g) ==
  IF Len(g.groups) = 0 THEN <<[start |-> 0, count |-> count(Value(g.index))]>> ELSE g.groups

\* The first pass: group i from index entry j on, then the groups after it.
RECURSIVE accumulateTangents(_, _, _, _, _)
accumulateTangents(tans, g, groups, i, j) ==
  IF i > Len(groups) THEN tans
  ELSE IF j >= groups[i].start + groups[i].count
       THEN IF i = Len(groups) THEN tans
            ELSE accumulateTangents(tans, g, groups, i + 1, groups[i + 1].start)
       ELSE LET next ==
                  handleTriangle(tans, g.attributes["position"], g.attributes["uv"],
                                 getX(Value(g.index), j), getX(Value(g.index), j + 1),
                                 getX(Value(g.index), j + 2))
            IN IF evaluated(next) THEN accumulateTangents(next, g, groups, i, j + 3)
               ELSE next

\* tan1 and tan2 after the first pass.
tangentTotals(g) ==
  LET zero == [v \in 0..(count(g.attributes["position"]) - 1) |-> RatZero]
      groups == tangentGroups(g)
  IN accumulateTangents([tan1 |-> zero, tan2 |-> zero], g, groups, 1, groups[1].start)

\* handleVertex writing the handedness 1 whatever the sign of the test.
handleVertexUnsigned(tangent, tans, normal, v) ==
  LET n == fromBufferAttribute(normal, v)
      t == tans.tan1[v].n
      nn == IF dot(n, n) = 0 THEN 1 ELSE dot(n, n)
      tmp == normalize(subVectors(multiplyScalar(t, nn), multiplyScalar(n, dot(n, t))))
  IN setXYZW(tangent, v, tmp, 1)

\* handleVertex(v): Gram-Schmidt against the normal (a unit vector, kept as its
\* direction n: n * (n.t) is n * (n.t) / (n.n)), and the handedness.
handleVertex(tangent, tans, normal, v) ==
  LET n == fromBufferAttribute(normal, v)
      t == tans.tan1[v].n
      nn == IF dot(n, n) = 0 THEN 1 ELSE dot(n, n)
      tmp == normalize(subVectors(multiplyScalar(t, nn), multiplyScalar(n, dot(n, t))))
      test == dot(crossVectors(n, t), tans.tan2[v].n)
      w == IF test < 0 THEN -1 ELSE 1
  IN setXYZW(tangent, v, tmp, w)

\* The second pass.
RECURSIVE writeTangents(_, _, _, _, _, _)
writeTangents(tangent, tans, g, groups, i, j) ==
  IF i > Len(groups) THEN tangent
  ELSE IF j >= groups[i].start + groups[i].count
       THEN IF i = Len(groups) THEN tangent
            ELSE writeTangents(tangent, tans, g, groups, i + 1, groups[i + 1].start)
       ELSE LET n == g.attributes["normal"]
                x == Value(g.index)
                t1 == handleVertex(tangent, tans, n, getX(x, j))
                t2 == handleVertex(t1, tans, n, getX(x, j + 1))
                t3 == handleVertex(t2, tans, n, getX(x, j + 2))
            IN IF evaluated(t3) THEN writeTangents(t3, tans, g, groups, i, j + 3)
               ELSE t3

\* The guard of computeTangents().
missingForTangents(g) ==
  \/ g.index = Null
  \/ ~hasAttribute(g, "position")
  \/ ~hasAttribute(g, "normal")
  \/ ~hasAttribute(g, "uv")

\* The geometry with a tangent attribute: a new one of 4 components for every
\* position if there is none.
withTangentAttribute(g) ==
  IF ~hasAttribute(g, "tangent")
  THEN setAttribute(g, "tangent",
         BufferAttribute(Zeros(4 * count(g.attributes["position"])), 4, FALSE))
  ELSE g

\* The two passes over the triangles, on a geometry that has all it needs.
writeComputedTangents(g1) ==
  LET groups == tangentGroups(g1)
      tans == tangentTotals(g1)
  IN IF evaluated(tans)
     THEN setAttribute(g1, "tangent",
            writeTangents(g1.attributes["tangent"], tans, g1, groups, 1, groups[1].start))
     ELSE g1

\* computeTangents creating the tangent attribute before it looks for what is
\* missing.
computeTangentsCreatingFirst(g) ==
  IF missingForTangents(g)
  THEN IF hasAttribute(g, "position") THEN withTangentAttribute(g) ELSE g
  ELSE writeComputedTangents(withTangentAttribute(g))

computeTangents(g) ==
  IF missingForTangents(g) THEN g
  ELSE writeComputedTangents(withTangentAttribute(g))

----------------------------------------------------------------------------
(* Conversion to a non-indexed geometry. *)

\* convertBufferAttribute with the inner copy reading array[index] without index++.
convertBufferAttributeNoAdvance(attribute, indices) ==
  [array |-> [k \in 1..(Len(indices) * attribute.itemSize) |->
                LET i == (k - 1) \div attribute.itemSize
                IN attribute.array[indices[i + 1] * attribute.itemSize + 1]],
   itemSize |-> attribute.itemSize,
   normalized |-> attribute.normalized,
   type |-> attribute.type]

\* convertBufferAttribute(attribute, indices): item i of the new array is item
\* indices[i] of the old one; the array keeps its type.
convertBufferAttribute(attribute, indices) ==
  [array |-> [k \in 1..(Len(indices) * attribute.itemSize) |->
                LET i == (k - 1) \div attribute.itemSize
                    j == (k - 1) % attribute.itemSize
                IN attribute.array[indices[i + 1] * attribute.itemSize + j + 1]],
   itemSize |-> attribute.itemSize,
   normalized |-> attribute.normalized,
   type |-> attribute.type]

RECURSIVE copyGroups(_, _, _)
copyGroups(g, groups, i) ==
  IF i > Len(groups) THEN g
  ELSE LET next == addGroup(g, groups[i].start, groups[i].count, groups[i].materialIndex)
       IN IF evaluated(next) THEN copyGroups(next, groups, i + 1) ELSE next

\* The geometry toNonIndexed() builds when there is an index.
toNonIndexedGeometry(g) ==
  LET indices == Value(g.index).array
      geometry2 ==
        [BufferGeometry EXCEPT
           !.attributes =
              [name \in DOMAIN g.attributes |->
                 convertBufferAttribute(g.attributes[name], indices)],
           !.morphAttributes =
              [name \in DOMAIN g.morphAttributes |->
                 [i \in 1..Len(g.morphAttributes[name]) |->
                    convertBufferAttribute(g.morphAttributes[name][i], indices)]],
           !.morphTargetsRelative = g.morphTargetsRelative]
  IN copyGroups(geometry2, g.groups, 1)

\* toNonIndexed returning a new, empty geometry when there is no index.
toNonIndexedAlwaysNew(g) ==
  IF g.index = Null
  THEN [isThis |-> FALSE, geometry |-> BufferGeometry, console |-> <<"warn">>]
  ELSE [isThis |-> FALSE, geometry |-> toNonIndexedGeometry(g), console |-> <<>>]

\* toNonIndexed(): what it returns (this, or a new geometry) and what it reports.
toNonIndexed(g) ==
  IF g.index = Null
  THEN [isThis |-> TRUE, geometry |-> g, console |-> <<"warn">>]
  ELSE [isThis |-> FALSE, geometry |-> toNonIndexedGeometry(g), console |-> <<>>]

----------------------------------------------------------------------------
(* Serialization. *)

\* toJSON(): with parameters, the type and the parameters alone; else the data.
toJSON(g) ==
  IF g.parameters # Null
  THEN [key \in DOMAIN Value(g.parameters) \cup {"type"} |->
          IF key = "type" THEN g.type ELSE Value(g.parameters)[key]]
  ELSE [type |-> g.type,
        data |->
          [index |-> IF g.index # Null
                     THEN Some([type |-> Value(g.index).type, array |-> Value(g.index).array])
                     ELSE Null,
           attributes |-> g.attributes,
           morphAttributes |->
             IF \E key \in DOMAIN g.morphAttributes : Len(g.morphAttributes[key]) > 0
             THEN Some([key \in {k \in DOMAIN g.morphAttributes :
                                   Len(g.morphAttributes[k]) > 0} |->
                          g.morphAttributes[key]])
             ELSE Null,
           morphTargetsRelative |->
             IF \E key \in DOMAIN g.morphAttributes : Len(g.morphAttributes[key]) > 0
             THEN Some(g.morphTargetsRelative)
             ELSE Null,
           groups |-> IF Len(g.groups) > 0 THEN Some(g.groups) ELSE Null,
           boundingSphere |-> g.boundingSphere]]

----------------------------------------------------------------------------
(* BoxGeometry. *)

\* Lengths are in units of 1/PosDen and uv coordinates in units of 1/UvDen.
UvDen == Lcm1to(MaxSeg)
PosDen == 2 * Lcm1to(MaxSeg)

Axis(name) == CASE name = "x" -> 1 [] name = "y" -> 2 [] name = "z" -> 3
\* The vector with components a, b, c on the axes u, v, w.
onAxes(u, v, w, a, b, c) ==
  [k \in 1..3 |-> IF k = Axis(u) THEN a ELSE IF k = Axis(v) THEN b ELSE c]

\* What the constructor's closures share.
NewBuilder ==
  [indices |-> <<>>, vertices |-> <<>>, normals |-> <<>>, uvs |-> <<>>,
   numberOfVertices |-> 0, groupStart |-> 0, scope |-> BufferGeometry]

\* The cell (ix, iy) of a plane pushing its first triangle only.
cellIndicesOneTriangle(numberOfVertices, gridX1, ix, iy) ==
  LET a == numberOfVertices + ix + gridX1 * iy
      b == numberOfVertices + ix + gridX1 * (iy + 1)
      d == numberOfVertices + (ix + 1) + gridX1 * iy
  IN <<a, b, d>>

\* The cell (ix, iy) of a plane taking a row to be one vertex longer than it is.
cellIndicesWideRows(numberOfVertices, gridX1, ix, iy) ==
  LET a == numberOfVertices + ix + (gridX1 + 1) * iy
      b == numberOfVertices + ix + (gridX1 + 1) * (iy + 1)
      c == numberOfVertices + (ix + 1) + (gridX1 + 1) * (iy + 1)
      d == numberOfVertices + (ix + 1) + (gridX1 + 1) * iy
  IN <<a, b, d, b, c, d>>

\* The six indices pushed for the cell (ix, iy) of a plane: two triangles.
cellIndices(numberOfVertices, gridX1, ix, iy) ==
  LET a == numberOfVertices + ix + gridX1 * iy
      b == numberOfVertices + ix + gridX1 * (iy + 1)
      c == numberOfVertices + (ix + 1) + gridX1 * (iy + 1)
      d == numberOfVertices + (ix + 1) + gridX1 * iy
  IN <<a, b, d, b, c, d>>

buildPlane(b, u, v, w, udir, vdir, width, height, depth, gridX, gridY, materialIndex) ==
  LET segmentWidth == width \div gridX
      segmentHeight == height \div gridY
      widthHalf == width \div 2
      heightHalf == height \div 2
      depthHalf == depth \div 2
      gridX1 == gridX + 1
      gridY1 == gridY + 1
      \* the rounds of the two double loops, row after row
      vertexRounds == [n \in 1..(gridX1 * gridY1) |-> n]
      cellRounds == [n \in 1..(gridX * gridY) |-> n]
      vertexCounter == Len(vertexRounds)
      groupCount == 6 * Len(cellRounds)
      vertex(n) ==
        LET ix == (n - 1) % gridX1
            iy == (n - 1) \div gridX1
        IN onAxes(u, v, w, (ix * segmentWidth - widthHalf) * udir,
                  (iy * segmentHeight - heightHalf) * vdir, depthHalf)
      uvOf(n) ==
        LET ix == (n - 1) % gridX1
            iy == (n - 1) \div gridX1
        IN <<(ix * UvDen) \div gridX, UvDen - (iy * UvDen) \div gridY>>
      faces(n) ==
        cellIndices(b.numberOfVertices, gridX1, (n - 1) % gridX, (n - 1) \div gridX)
  IN [indices |-> b.indices \o Flatten([n \in DOMAIN cellRounds |-> faces(n)]),
      vertices |-> b.vertices \o Flatten([n \in DOMAIN vertexRounds |-> vertex(n)]),
      normals |-> b.normals \o
                  Flatten([n \in DOMAIN vertexRounds |->
                             onAxes(u, v, w, 0, 0, IF depth > 0 THEN 1 ELSE -1)]),
      uvs |-> b.uvs \o Flatten([n \in DOMAIN vertexRounds |-> uvOf(n)]),
      numberOfVertices |-> b.numberOfVertices + vertexCounter,
      groupStart |-> b.groupStart + groupCount,
      scope |-> addGroup(b.scope, b.groupStart, groupCount, materialIndex)]

BoxGeometry(width, height, depth, widthSegments, heightSegments, depthSegments) ==
  LET px == buildPlane(NewBuilder, "z", "y", "x", -1, -1, depth, height, width,
                       depthSegments, heightSegments, 0)
      nx == buildPlane(px, "z", "y", "x", 1, -1, depth, height, -width,
                       depthSegments, heightSegments, 1)
      py == buildPlane(nx, "x", "z", "y", 1, 1, width, depth, height,
                       widthSegments, depthSegments, 2)
      ny == buildPlane(py, "x", "z", "y", 1, -1, width, depth, -height,
                       widthSegments, depthSegments, 3)
      pz == buildPlane(ny, "x", "y", "z", 1, -1, width, height, depth,
                       widthSegments, heightSegments, 4)
      nz == buildPlane(pz, "x", "y", "z", -1, -1, width, height, -depth,
                       widthSegments, heightSegments, 5)
      scope == [nz.scope EXCEPT
                  !.type = "BoxGeometry",
                  !.parameters =
                     Some([width |-> width, height |-> height, depth |-> depth,
                           widthSegments |-> widthSegments,
                           heightSegments |-> heightSegments,
                           depthSegments |-> depthSegments])]
  IN setAttribute(
       setAttribute(
         setAttribute(setIndex(scope, nz.indices), "position",
                      Float32BufferAttribute(nz.vertices, 3)),
         "normal", Float32BufferAttribute(nz.normals, 3)),
       "uv", Float32BufferAttribute(nz.uvs, 2))

\* fromJSON handing data.height to the constructor as the width, and back.
fromJSONSwapped(data) ==
  BoxGeometry(data.height, data.width, data.depth,
              data.widthSegments, data.heightSegments, data.depthSegments)

\* BoxGeometry.fromJSON(data)
fromJSON(data) ==
  BoxGeometry(data.width, data.height, data.depth,
              data.widthSegments, data.heightSegments, data.depthSegments)

----------------------------------------------------------------------------
(* What the reading operations need of the buffers: every read stays inside   *)
(* its array (a read outside gives NaN in the code, which is not modelled).   *)

indexInRange(g, attribute) ==
  g.index # Null =>
    \A k \in DOMAIN Value(g.index).array : Value(g.index).array[k] < count(attribute)

sameCount(g, name) ==
  hasAttribute(g, name) => count(g.attributes[name]) = count(g.attributes["position"])

volumesReadable(g) ==
  hasAttribute(g, "position") =>
    /\ count(g.attributes["position"]) >= 1
    /\ \A i \in DOMAIN morphAttributesPosition(g) :
         count(morphAttributesPosition(g)[i]) = count(g.attributes["position"])

normalsReadable(g) ==
  hasAttribute(g, "position") =>
    /\ sameCount(g, "normal")
    /\ indexInRange(g, g.attributes["position"])
    /\ IF g.index # Null
       THEN count(Value(g.index)) % 3 = 0
       ELSE count(g.attributes["position"]) % 3 = 0

tangentsReadable(g) ==
  ~missingForTangents(g) =>
    /\ sameCount(g, "normal") /\ sameCount(g, "uv") /\ sameCount(g, "tangent")
    /\ hasAttribute(g, "tangent") => g.attributes["tangent"].itemSize = 4
    /\ indexInRange(g, g.attributes["position"])
    /\ \A i \in DOMAIN tangentGroups(g) :
         /\ tangentGroups(g)[i].count % 3 = 0
         /\ tangentGroups(g)[i].start + tangentGroups(g)[i].count <= count(Value(g.index))

convertReadable(g) ==
  /\ \A name \in DOMAIN g.attributes : indexInRange(g, g.attributes[name])
  /\ \A name \in DOMAIN g.morphAttributes :
       \A i \in DOMAIN g.morphAttributes[name] :
         indexInRange(g, g.morphAttributes[name][i])

----------------------------------------------------------------------------
(* The inputs of the operations. *)

\* A quad of four vertices in the plane z = 0 and a single triangle.
QuadPosition == Float32BufferAttribute(<<0, 0, 0, 2, 0, 0, 0, 2, 0, 2, 2, 0>>, 3)
TrianglePosition == Float32BufferAttribute(<<0, 0, 0, 2, 0, 0, 0, 2, 2>>, 3)
QuadNormal == Float32BufferAttribute(<<0, 0, 1, 0, 0, 1, 0, 0, 1, 0, 0, 1>>, 3)
QuadUv == Float32BufferAttribute(<<0, 0, 1, 0, 0, 1, 1, 1>>, 2)
QuadMorph == Float32BufferAttribute(<<1, 0, 0, 0, 0, 3, -1, 0, 0, 0, 1, 0>>, 3)
QuadIndex == <<0, 1, 2, 2, 1, 3>>

AttributeNames == {"position", "normal", "uv", "tangent"}
AttributeInputs ==
  [name \in AttributeNames |->
     CASE name = "position" -> {QuadPosition, TrianglePosition}
       [] name = "normal" -> {QuadNormal}
       [] name = "uv" -> {QuadUv}
       [] name = "tangent" ->
            {BufferAttribute(<<1, 0, 0, 1, 1, 0, 0, 1, 1, 0, 0, 1, 1, 0, 0, 1>>, 4, FALSE)}]
IndexInputs == {QuadIndex, <<0, 1, 2>>}
\* Arguments of addGroup: the last omits materialIndex and overlaps both others.
GroupInputs == {<<0, 3, 0>>, <<3, 3, 1>>, <<1, 4>>}
\* A matrix that is none of the wrappers': a shear followed by a translation.
ShearMatrix == [m |-> <<<<1, 1, 0>>, <<0, 1, 0>>, <<0, 0, 1>>>>, t |-> <<0, 3, 0>>]

\* What applyMatrix4 and its wrappers can make of a geometry.
Transformed(g) ==
  {applyMatrix4(g, ShearMatrix), translate(g, 1, 0, -2), scale(g, -1, 1, 1),
   rotateX(g, 1), rotateY(g, 2), rotateZ(g, 3)}

\* The quad with its index, normals and uvs, as setIndex and setAttribute leave it.
QuadGeometry ==
  setAttribute(
    setAttribute(setAttribute(setIndex(BufferGeometry, QuadIndex), "position", QuadPosition),
                 "normal", QuadNormal),
    "uv", QuadUv)

----------------------------------------------------------------------------
(* The operations as actions. *)

NoResult == [kind |-> "none"]
op == IF history = <<>> THEN "constructor" ELSE history[Len(history)]

\* A call of `name` with `arguments` on the one geometry.
Call(name, arguments, g, res, reported) ==
  /\ Len(history) < MaxSteps
  /\ geom' = g
  /\ result' = res
  /\ console' = reported
  /\ history' = Append(history, name)
  /\ args' = arguments
  /\ UNCHANGED <<other, objects>>

Step(name, g, res, reported) == Call(name, <<>>, g, res, reported)

SetIndex ==
  \E array \in IndexInputs : Step("setIndex", setIndex(geom, array), NoResult, <<>>)

SetAttribute ==
  \E name \in AttributeNames :
    \E attribute \in AttributeInputs[name] :
      Call("setAttribute", <<name, attribute>>, setAttribute(geom, name, attribute),
           NoResult, <<>>)

DeleteAttribute ==
  \E name \in AttributeNames :
    Call("deleteAttribute", <<name>>, deleteAttribute(geom, name), NoResult, <<>>)

\* geometry.morphAttributes.position = [...]; geometry.morphTargetsRelative = ...
SetMorphTargets ==
  \E relative \in BOOLEAN :
    Step("setMorphTargets",
         [geom EXCEPT !.morphAttributes = [name \in {"position"} |-> <<QuadMorph>>],
                      !.morphTargetsRelative = relative],
         NoResult, <<>>)

GetAttribute ==
  \E name \in AttributeNames :
    Call("getAttribute", <<name>>, geom,
         [kind |-> "value", value |-> getAttributeOrUndefined(geom, name)], <<>>)

HasAttribute ==
  \E name \in AttributeNames :
    Call("hasAttribute", <<name>>, geom,
         [kind |-> "value", value |-> hasAttribute(geom, name)], <<>>)

AddGroup ==
  /\ Len(geom.groups) < 6 + MaxGroups
  /\ \E group \in GroupInputs :
       Call("addGroup", group, addGroupCall(geom, group), NoResult, <<>>)

ClearGroups == Step("clearGroups", clearGroups(geom), NoResult, <<>>)

SetDrawRange == Step("setDrawRange", setDrawRange(geom, 0, 3), NoResult, <<>>)

ApplyMatrix4 ==
  /\ Len(history) < MaxSteps
  /\ volumesReadable(geom)
  /\ \E g \in Transformed(geom) : Step("applyMatrix4", g, NoResult, <<>>)

ComputeBoundingBox ==
  /\ volumesReadable(geom)
  /\ Step("computeBoundingBox", computeBoundingBox(geom), NoResult, <<>>)

ComputeBoundingSphere ==
  /\ volumesReadable(geom)
  /\ Step("computeBoundingSphere", computeBoundingSphere(geom), NoResult, <<>>)

ComputeTangents ==
  /\ tangentsReadable(geom)
  /\ Step("computeTangents", computeTangents(geom), NoResult,
          IF missingForTangents(geom) THEN <<"error">> ELSE <<>>)

ComputeVertexNormals ==
  /\ normalsReadable(geom)
  /\ Step("computeVertexNormals", computeVertexNormals(geom), NoResult, <<>>)

ToNonIndexed ==
  /\ convertReadable(geom)
  /\ LET r == toNonIndexed(geom)
     IN Step("toNonIndexed", geom,
             [kind |-> "geometry", isThis |-> r.isThis, geometry |-> r.geometry],
             r.console)

ToJSON == Step("toJSON", geom, [kind |-> "json", data |-> toJSON(geom)], <<>>)

\* BoxGeometry.fromJSON on what toJSON has just returned for a BoxGeometry.
FromJSON ==
  /\ op = "toJSON"
  /\ result.data.type = "BoxGeometry"
  /\ Step("fromJSON", geom,
          [kind |-> "geometry", isThis |-> FALSE, geometry |-> fromJSON(result.data)],
          <<>>)

----------------------------------------------------------------------------
(* The life of one geometry: construction, then any operations. *)

\* new BoxGeometry(2, 1, 1, 1, 1, 1)
UnitBox == BoxGeometry(2 * PosDen, PosDen, PosDen, 1, 1, 1)

Init ==
  /\ geom \in {BufferGeometry, UnitBox, QuadGeometry}
  /\ result = NoResult
  /\ console = <<>>
  /\ history = <<>>
  /\ args = <<>>
  /\ other = Null
  /\ objects = <<>>

Next ==
  \/ SetIndex
  \/ SetAttribute
  \/ DeleteAttribute
  \/ SetMorphTargets
  \/ AddGroup
  \/ ClearGroups
  \/ SetDrawRange
  \/ ApplyMatrix4
  \/ ComputeBoundingBox
  \/ ComputeBoundingSphere
  \/ ComputeTangents
  \/ ComputeVertexNormals
  \/ ToNonIndexed
  \/ ToJSON
  \/ FromJSON

Spec == Init /\ [][Next]_vars

----------------------------------------------------------------------------
(* Meshes for the conversions and the vertex normals: an index of up to       *)
(* MaxTriangles triangles (or none), positions, and optionally normals with   *)
(* arbitrary values, uvs and a morph target.                                  *)

TriangleInputs == {<<0, 1, 2>>, <<2, 1, 3>>, <<0, 2, 1>>, <<1, 1, 3>>, <<2, 2, 2>>}

\* The index arrays of exactly t triangles.
RECURSIVE IndexArrays(_)
IndexArrays(t) ==
  IF t = 0 THEN {<<>>}
  ELSE {head \o triangle : head \in IndexArrays(t - 1), triangle \in TriangleInputs}

MeshIndexInputs == UNION {IndexArrays(t) : t \in 1..MaxTriangles}

MeshPositionInputs ==
  {TrianglePosition,
   QuadPosition,
   Float32BufferAttribute(<<0, 0, 0, 2, 0, 0, 0, 2, 0, 0, 0, 2>>, 3),
   Float32BufferAttribute(<<0, 0, 0, 1, 0, 0, 0, 1, 0, 3, 0, 0, 3, 0, 2, 3, 2, 0>>, 3)}

\* A normal attribute of n items whose values are not those of any face.
ArbitraryNormal(n, seed) ==
  Float32BufferAttribute([k \in 1..(3 * n) |-> ((k * seed) % 5) - 2], 3)
ArbitraryUv(n) == Float32BufferAttribute([k \in 1..(2 * n) |-> k], 2)
ArbitraryMorph(n) == Float32BufferAttribute([k \in 1..(3 * n) |-> 10 + k], 3)

MeshGeometry(index, position, normals, extras) ==
  LET n == count(position)
      g0 == setAttribute(BufferGeometry, "position", position)
      g1 == IF index = Null THEN g0 ELSE setIndex(g0, Value(index))
      g2 == IF normals = 0 THEN g1 ELSE setAttribute(g1, "normal", ArbitraryNormal(n, normals))
  IN IF extras
     THEN [setAttribute(g2, "uv", ArbitraryUv(n))
             EXCEPT !.morphAttributes = [name \in {"position"} |-> <<ArbitraryMorph(n)>>]]
     ELSE g2

InitMesh ==
  /\ \E index \in {Null} \cup {Some(array) : array \in MeshIndexInputs} :
       \E position \in MeshPositionInputs :
         \E normals \in {0, 1, 3} :
           \E extras \in BOOLEAN :
             geom = MeshGeometry(index, position, normals, extras)
  /\ result = NoResult
  /\ console = <<>>
  /\ history = <<>>
  /\ args = <<>>
  /\ other = Null
  /\ objects = <<>>

NextMesh ==
  \/ ComputeVertexNormals
  \/ ToNonIndexed

SpecMesh == InitMesh /\ [][NextMesh]_vars

----------------------------------------------------------------------------
(* toNonIndexed() on an indexed geometry. *)

\* new is old expanded by the index array: one item per index entry, item i
\* equal, component for component, to item index[i] of old.
expandedBy(new, old, index) ==
  /\ new.itemSize = old.itemSize
  /\ Len(new.array) = Len(index) * old.itemSize
  /\ \A i \in 0..(Len(index) - 1) :
       \A j \in 0..(old.itemSize - 1) :
         getComponent(new, i, j) = getComponent(old, index[i + 1], j)

\* C1: toNonIndexed() on a geometry with an index of length L returns a new
\* geometry without index in which every attribute and every morph-target
\* attribute has L items, item i being the source's item at vertex index[i].
C1_ToNonIndexedExpands ==
  (op = "toNonIndexed" /\ geom.index # Null) =>
    LET index == Value(geom.index).array
        geometry2 == result.geometry
    IN /\ ~result.isThis
       /\ geometry2.index = Null
       /\ DOMAIN geometry2.attributes = DOMAIN geom.attributes
       /\ \A name \in DOMAIN geom.attributes :
            expandedBy(geometry2.attributes[name], geom.attributes[name], index)
       /\ DOMAIN geometry2.morphAttributes = DOMAIN geom.morphAttributes
       /\ \A name \in DOMAIN geom.morphAttributes :
            /\ Len(geometry2.morphAttributes[name]) = Len(geom.morphAttributes[name])
            /\ \A i \in DOMAIN geom.morphAttributes[name] :
                 expandedBy(geometry2.morphAttributes[name][i],
                            geom.morphAttributes[name][i], index)

\* The index [0,1,2,2,1,3] over 4 vertices with a uv and a morph target has been
\* converted: 6 items per attribute.
C1_Witness ==
  /\ op = "toNonIndexed"
  /\ geom.index # Null
  /\ Value(geom.index).array = <<0, 1, 2, 2, 1, 3>>
  /\ count(geom.attributes["position"]) = 4
  /\ hasAttribute(geom, "uv")
  /\ count(result.geometry.attributes["position"]) = 6
  /\ count(result.geometry.attributes["uv"]) = 6
  /\ count(result.geometry.morphAttributes["position"][1]) = 6

----------------------------------------------------------------------------
(* computeVertexNormals() twice. *)

\* C6: a computeVertexNormals() that directly follows another one leaves the
\* normal attribute (and the whole geometry) as the first call left it, and what
\* a call leaves does not depend on the normals there were before it.
C6_VertexNormalsIdempotent ==
  [][history' = Append(history, "computeVertexNormals") =>
       /\ op = "computeVertexNormals" => geom' = geom
       /\ hasAttribute(geom, "position") =>
            geom'.attributes["normal"].array =
              computeVertexNormals(deleteAttribute(geom, "normal")).attributes["normal"].array]_vars

\* An indexed geometry after two computeVertexNormals() in a row, the second
\* having found normals that are not zero.
C6_Witness ==
  /\ Len(history) >= 2
  /\ history[Len(history)] = "computeVertexNormals"
  /\ history[Len(history) - 1] = "computeVertexNormals"
  /\ geom.index # Null
  /\ hasAttribute(geom, "normal")
  /\ \E k \in DOMAIN geom.attributes["normal"].array : geom.attributes["normal"].array[k] # 0

----------------------------------------------------------------------------
(* Point clouds for the bounding volumes: 1..MaxVerts positions, and up to    *)
(* MaxMorphs morph targets of as many items, relative or absolute.            *)

VolumePoints == {<<0, 0, 0>>, <<2, 0, 0>>, <<0, 1, -1>>}
MorphPoints == {<<1, 0, 0>>, <<0, -1, 2>>}

\* The lists of exactly n members of a set.
RECURSIVE Lists(_, _)
Lists(S, n) ==
  IF n = 0 THEN {<<>>} ELSE {Append(list, x) : list \in Lists(S, n - 1), x \in S}

PointCloud(points, morphs, relative) ==
  [setAttribute(BufferGeometry, "position", Float32BufferAttribute(Flatten(points), 3))
     EXCEPT !.morphAttributes =
              IF morphs = <<>> THEN NoAttributes
              ELSE [name \in {"position"} |->
                      [i \in DOMAIN morphs |-> Float32BufferAttribute(Flatten(morphs[i]), 3)]],
            !.morphTargetsRelative = relative]

InitVolumes ==
  /\ \E n \in 1..MaxVerts :
       \E points \in Lists(VolumePoints, n) :
         \E k \in 0..MaxMorphs :
           \E morphs \in Lists(Lists(MorphPoints, n), k) :
             \E relative \in BOOLEAN :
               geom = PointCloud(points, morphs, relative)
  /\ result = NoResult
  /\ console = <<>>
  /\ history = <<>>
  /\ args = <<>>
  /\ other = Null
  /\ objects = <<>>

NextVolumes ==
  \/ ComputeBoundingBox
  \/ ComputeBoundingSphere

SpecVolumes == InitVolumes /\ [][NextVolumes]_vars

\* The base positions and the morph-expanded positions of a geometry: absolute
\* targets give their own vertices, relative ones the sums position_j + m_j.
expandedPositions(g) ==
  LET position == g.attributes["position"]
      morphs == morphAttributesPosition(g)
  IN {fromBufferAttribute(position, j) : j \in 0..(count(position) - 1)}
       \cup UNION {
         {IF g.morphTargetsRelative
          THEN addVectors(fromBufferAttribute(position, j), fromBufferAttribute(morphs[i], j))
          ELSE fromBufferAttribute(morphs[i], j) : j \in 0..(count(morphs[i]) - 1)}
         : i \in DOMAIN morphs}

boxContains(box, points) ==
  \A p \in points : \A c \in 1..3 : box.min[c] <= p[c] /\ p[c] <= box.max[c]
boxAttained(box, points) ==
  \A c \in 1..3 : (\E p \in points : p[c] = box.min[c]) /\ (\E p \in points : p[c] = box.max[c])

\* C2, as stated: after computeBoundingBox() the box contains every base and
\* every morph-expanded position, and each of its min/max components is attained.
C2_BoxExactInBothModes ==
  (op = "computeBoundingBox" /\ hasAttribute(geom, "position")) =>
    /\ boxContains(Value(geom.boundingBox), expandedPositions(geom))
    /\ boxAttained(Value(geom.boundingBox), expandedPositions(geom))

\* C2, amended: after computeBoundingBox() the box contains every base and every
\* morph-expanded position in both modes; each min/max component is attained when
\* the morph targets are absolute or there are none (relative targets expand the
\* box by the sums of the corners, which no vertex need reach).
C2_BoxContainsAndExactWhenAbsolute ==
  (op = "computeBoundingBox" /\ hasAttribute(geom, "position")) =>
    /\ boxContains(Value(geom.boundingBox), expandedPositions(geom))
    /\ (~geom.morphTargetsRelative \/ morphAttributesPosition(geom) = <<>>) =>
         boxAttained(Value(geom.boundingBox), expandedPositions(geom))

\* A box computed from positions with absolute morph targets, one of which lies
\* outside the box of the base positions.
C2_Witness ==
  /\ op = "computeBoundingBox"
  /\ hasAttribute(geom, "position")
  /\ ~geom.morphTargetsRelative
  /\ Len(morphAttributesPosition(geom)) >= 1
  /\ Value(geom.boundingBox) # setFromBufferAttribute(geom.attributes["position"])

----------------------------------------------------------------------------
(* applyMatrix4 and the bounding volumes. *)

\* The bounding box, or sphere, of g is the one its present data give.
boxIsFresh(g) == g.boundingBox = computeBoundingBox(g).boundingBox
sphereIsFresh(g) == g.boundingSphere = computeBoundingSphere(g).boundingSphere

\* C4, as stated: if a bounding box or a bounding sphere had been computed
\* before applyMatrix4 (or a wrapper), both are recomputed from the transformed
\* data by the call; if neither had been, both are still null after it.
C4_BothVolumesRecomputed ==
  [][history' = Append(history, "applyMatrix4") =>
       IF geom.boundingBox # Null \/ geom.boundingSphere # Null
       THEN /\ geom'.boundingBox # Null /\ boxIsFresh(geom')
            /\ geom'.boundingSphere # Null /\ sphereIsFresh(geom')
       ELSE geom'.boundingBox = Null /\ geom'.boundingSphere = Null]_vars

\* C4, amended: applyMatrix4 (or a wrapper) treats each volume on its own.  A
\* bounding box computed before the call is recomputed from the transformed data
\* and one that was null stays null; the same holds of the bounding sphere.
C4_EachVolumeRecomputedIfPresent ==
  [][history' = Append(history, "applyMatrix4") =>
       /\ IF geom.boundingBox # Null
          THEN geom'.boundingBox # Null /\ boxIsFresh(geom')
          ELSE geom'.boundingBox = Null
       /\ IF geom.boundingSphere # Null
          THEN geom'.boundingSphere # Null /\ sphereIsFresh(geom')
          ELSE geom'.boundingSphere = Null]_vars

\* A geometry with positions whose box had been computed and whose sphere had
\* not, after a transform: the box is not the one of the data before the call.
C4_Witness ==
  /\ Len(history) >= 2
  /\ op = "applyMatrix4"
  /\ history[Len(history) - 1] = "computeBoundingBox"
  /\ hasAttribute(geom, "position")
  /\ geom.boundingBox # Null
  /\ geom.boundingSphere = Null

----------------------------------------------------------------------------
(* computeTangents() and toNonIndexed() on a geometry that lacks what they need. *)

\* C8: computeTangents() on a geometry whose index is null or that lacks
\* position, normal or uv reports an error and changes nothing: no tangent
\* attribute appears, an existing one keeps its values, every field is as before.
C8_ComputeTangentsMissingNoEffect ==
  [][(/\ history' = Append(history, "computeTangents")
      /\ \/ geom.index = Null
         \/ ~hasAttribute(geom, "position")
         \/ ~hasAttribute(geom, "normal")
         \/ ~hasAttribute(geom, "uv"))
     => geom' = geom /\ console' = <<"error">>]_vars

\* computeTangents() has reported an error on a geometry that has positions but
\* no uv.
C8_Witness ==
  /\ op = "computeTangents"
  /\ console = <<"error">>
  /\ hasAttribute(geom, "position")
  /\ ~hasAttribute(geom, "uv")

\* C9: toNonIndexed() on a geometry without index reports a warning and returns
\* the geometry itself, which is as it was before the call.
C9_ToNonIndexedNullIndexReturnsThis ==
  [][(history' = Append(history, "toNonIndexed") /\ geom.index = Null) =>
       /\ geom' = geom
       /\ result'.isThis
       /\ result'.geometry = geom
       /\ console' = <<"warn">>]_vars

\* toNonIndexed() has returned this for a geometry with positions and no index.
C9_Witness ==
  /\ op = "toNonIndexed"
  /\ geom.index = Null
  /\ hasAttribute(geom, "position")
  /\ result.isThis
  /\ console = <<"warn">>

----------------------------------------------------------------------------
(* Boxes of every size and every segment count up to MaxSeg, serialized and   *)
(* rebuilt.                                                                   *)

\* Widths, heights and depths, in whole units.
BoxSizes == {1, 2}

InitBox ==
  /\ \E width \in BoxSizes, height \in BoxSizes, depth \in BoxSizes :
       \E widthSegments \in 1..MaxSeg, heightSegments \in 1..MaxSeg,
          depthSegments \in 1..MaxSeg :
         geom = BoxGeometry(width * PosDen, height * PosDen, depth * PosDen,
                            widthSegments, heightSegments, depthSegments)
  /\ result = NoResult
  /\ console = <<>>
  /\ history = <<>>
  /\ args = <<>>
  /\ other = Null
  /\ objects = <<>>

NextBox ==
  \/ ToJSON
  \/ FromJSON

SpecBox == InitBox /\ [][NextBox]_vars

\* The normal of every vertex that the index entries of a group refer to.
groupNormals(g, group) ==
  {fromBufferAttribute(g.attributes["normal"], getX(Value(g.index), j)) :
     j \in group.start..(group.start + group.count - 1)}

\* C7: a BoxGeometry built with segment counts (ws, hs, ds) has
\* 2*((ds+1)(hs+1) + (ws+1)(ds+1) + (ws+1)(hs+1)) vertices, 12*(ds*hs + ws*ds +
\* ws*hs) indices and 6 groups with materialIndex 0..5, which are the faces +x,
\* -x, +y, -y, +z, -z in this order, each of count 6*gridX*gridY of its face.
C7_BoxCounts ==
  LET ws == Value(geom.parameters).widthSegments
      hs == Value(geom.parameters).heightSegments
      ds == Value(geom.parameters).depthSegments
      cells == <<ds * hs, ds * hs, ws * ds, ws * ds, ws * hs, ws * hs>>
      faceNormals == <<<<1, 0, 0>>, <<-1, 0, 0>>, <<0, 1, 0>>, <<0, -1, 0>>,
                       <<0, 0, 1>>, <<0, 0, -1>>>>
  IN /\ count(geom.attributes["position"]) =
          2 * ((ds + 1) * (hs + 1) + (ws + 1) * (ds + 1) + (ws + 1) * (hs + 1))
     /\ count(Value(geom.index)) = 12 * (ds * hs + ws * ds + ws * hs)
     /\ Len(geom.groups) = 6
     /\ \A i \in 1..6 :
          /\ geom.groups[i].materialIndex = i - 1
          /\ geom.groups[i].count = 6 * cells[i]
          /\ groupNormals(geom, geom.groups[i]) = {faceNormals[i]}

\* The 2x1x1 box with all segment counts 1: 24 vertices, 36 indices, groups of 6.
C7_Witness ==
  /\ Value(geom.parameters) =
       [width |-> 2 * PosDen, height |-> PosDen, depth |-> PosDen,
        widthSegments |-> 1, heightSegments |-> 1, depthSegments |-> 1]
  /\ count(geom.attributes["position"]) = 24
  /\ count(Value(geom.index)) = 36
  /\ \A i \in 1..6 : geom.groups[i].count = 6

----------------------------------------------------------------------------
(* toJSON() followed by BoxGeometry.fromJSON. *)

sameData(a, b) == a.attributes = b.attributes /\ a.index = b.index /\ a.groups = b.groups

\* The operations that leave attributes, index and groups as they are.
NotMutating ==
  {"toJSON", "fromJSON", "toNonIndexed", "setDrawRange", "computeBoundingBox",
   "computeBoundingSphere"}

\* C5, as stated: whatever operations the geometry has gone through, the
\* geometry rebuilt from its toJSON() has its attribute values, index and groups.
C5_RoundTripAfterAnyMutation ==
  op = "fromJSON" => sameData(result.geometry, geom)

\* C5, amended: the geometry BoxGeometry.fromJSON rebuilds from toJSON() is the
\* one the constructor builds from the parameters; its attribute values, index
\* and groups are those of the serialized geometry when no operation has changed
\* them since construction.
C5_RoundTripOfParameters ==
  op = "fromJSON" =>
    LET parameters == Value(geom.parameters)
    IN /\ sameData(result.geometry,
                   BoxGeometry(parameters.width, parameters.height, parameters.depth,
                               parameters.widthSegments, parameters.heightSegments,
                               parameters.depthSegments))
       /\ (\A k \in DOMAIN history : history[k] \in NotMutating) =>
            sameData(result.geometry, geom)

\* A box rebuilt from its toJSON() right after construction.
C5_Witness ==
  /\ history = <<"toJSON", "fromJSON">>
  /\ geom.type = "BoxGeometry"
  /\ result.geometry.type = "BoxGeometry"
  /\ sameData(result.geometry, geom)

----------------------------------------------------------------------------
(* Planar meshes of two halves for the tangents.  The halves have vertices of *)
(* their own in the plane z = 0 and one normal; the uv of a vertex of the     *)
(* first half is an affine map of its position, and the uv of a vertex of the *)
(* second half is that map followed by the reflection of one uv axis.         *)

\* The first half: its vertices (x, y) and its triangles.  The last one has a
\* vertex that only a triangle without area refers to.
HalfShapes ==
  {[points |-> <<<<0, 0>>, <<2, 0>>, <<0, 2>>>>, index |-> <<0, 1, 2>>],
   [points |-> <<<<0, 0>>, <<2, 0>>, <<0, 2>>>>, index |-> <<0, 2, 1>>],
   [points |-> <<<<0, 0>>, <<2, 0>>, <<0, 2>>, <<2, 2>>>>, index |-> <<0, 1, 2, 2, 1, 3>>],
   [points |-> <<<<0, 0>>, <<2, 0>>, <<0, 2>>, <<4, 0>>>>, index |-> <<0, 1, 2, 0, 1, 3>>]}

\* The maps (x, y) |-> (u, v), as the rows of a matrix; the last three are singular.
UvMaps ==
  {<<<<1, 0>>, <<0, 1>>>>, <<<<0, 1>>, <<1, 0>>>>, <<<<1, 1>>, <<0, 1>>>>,
   <<<<2, 0>>, <<0, -1>>>>,
   <<<<1, 0>>, <<0, 0>>>>, <<<<1, 1>>, <<1, 1>>>>, <<<<0, 0>>, <<0, 0>>>>}

\* Where the second half lies: the first one moved along x, or reflected in x.
Placements == {"moved", "reflected"}
place(placement, p) ==
  IF placement = "moved" THEN <<p[1] + 5, p[2]>> ELSE <<-1 - p[1], p[2]>>

uvOfPoint(map, p) ==
  <<map[1][1] * p[1] + map[1][2] * p[2], map[2][1] * p[1] + map[2][2] * p[2]>>
mirrorUv(axis, uv) == IF axis = 1 THEN <<-uv[1], uv[2]>> ELSE <<uv[1], -uv[2]>>

TwoHalves(shape, map, axis, placement, nz) ==
  LET k == Len(shape.points)
      second == [i \in 1..k |-> place(placement, shape.points[i])]
      points == shape.points \o second
      uvs == [i \in 1..(2 * k) |->
                IF i <= k THEN uvOfPoint(map, points[i])
                ELSE mirrorUv(axis, uvOfPoint(map, points[i]))]
      index == shape.index \o [j \in DOMAIN shape.index |-> shape.index[j] + k]
  IN setAttribute(
       setAttribute(
         setAttribute(setIndex(BufferGeometry, index), "position",
           Float32BufferAttribute(Flatten([i \in 1..(2 * k) |-> <<points[i][1], points[i][2], 0>>]), 3)),
         "normal", Float32BufferAttribute(Flatten([i \in 1..(2 * k) |-> <<0, 0, nz>>]), 3)),
       "uv", Float32BufferAttribute(Flatten(uvs), 2))

InitTangents ==
  /\ \E shape \in HalfShapes, map \in UvMaps, axis \in {1, 2},
        placement \in Placements, nz \in {1, -1} :
       geom = TwoHalves(shape, map, axis, placement, nz)
  /\ result = NoResult
  /\ console = <<>>
  /\ history = <<>>
  /\ args = <<>>
  /\ other = Null
  /\ objects = <<>>

NextTangents == ComputeTangents

SpecTangents == InitTangents /\ [][NextTangents]_vars

\* The vertices the index refers to, and those of them in each half.
referencedVertices(g) == {Value(g.index).array[j] : j \in DOMAIN Value(g.index).array}
firstHalf(g) ==
  {v \in referencedVertices(g) : 2 * v < count(g.attributes["position"])}
secondHalf(g) == referencedVertices(g) \ firstHalf(g)
handedness(g, v) == getComponent(g.attributes["tangent"], v, 3)

\* Every handedness is 1 or -1, and those of the second half are the opposite
\* of those of the first.
oppositeHandedness(g) ==
  /\ \A v \in referencedVertices(g) : handedness(g, v) \in {1, -1}
  /\ \A v \in firstHalf(g) : \A m \in secondHalf(g) : handedness(g, m) = -handedness(g, v)

\* Every referenced vertex is a corner of a triangle whose uvs span an area.
everyVertexHasUvArea(g) ==
  LET x == Value(g.index).array
      uvArea(t) ==
        LET a == fromBufferAttribute2(g.attributes["uv"], x[3 * t + 1])
            b == fromBufferAttribute2(g.attributes["uv"], x[3 * t + 2])
            c == fromBufferAttribute2(g.attributes["uv"], x[3 * t + 3])
        IN (b[1] - a[1]) * (c[2] - a[2]) - (c[1] - a[1]) * (b[2] - a[2])
  IN \A v \in referencedVertices(g) :
       \E t \in 0..((Len(x) \div 3) - 1) :
         v \in {x[3 * t + 1], x[3 * t + 2], x[3 * t + 3]} /\ uvArea(t) # 0

\* C10, as stated: on a planar mesh of two halves with one normal, the second
\* half's uv mapping being the first's mirrored along one uv axis,
\* computeTangents() writes w = 1 or -1 on every referenced vertex, and the sign
\* on the mirrored half is the opposite of the sign on the other half.
C10_MirroredHalfOpposite ==
  op = "computeTangents" => oppositeHandedness(geom)

\* C10, amended: the same, provided that every referenced vertex is a corner of
\* a triangle whose uvs span an area (the uv map is not singular and the
\* triangle is not flat); a vertex without such a triangle gets w = 1 in both
\* halves.
C10_MirroredHalfOppositeWhenUvArea ==
  (op = "computeTangents" /\ everyVertexHasUvArea(geom)) => oppositeHandedness(geom)

\* Tangents computed on two quads, the second reflected in space and in u: the
\* first half has w = 1 and the second w = -1.
C10_Witness ==
  /\ op = "computeTangents"
  /\ everyVertexHasUvArea(geom)
  /\ count(geom.attributes["position"]) = 8
  /\ handedness(geom, 0) = 1
  /\ handedness(geom, 4) = -1

----------------------------------------------------------------------------
(* The group list under addGroup and clearGroups alone.                       *)

InitGroups ==
  /\ geom \in {BufferGeometry, UnitBox, QuadGeometry}
  /\ result = NoResult
  /\ console = <<>>
  /\ history = <<>>
  /\ args = <<>>
  /\ other = Null
  /\ objects = <<>>

NextGroups ==
  \/ AddGroup
  \/ ClearGroups

SpecGroups == InitGroups /\ [][NextGroups]_vars

\* The record that a call addGroup(...arguments) stands for.
groupOfCall(arguments) ==
  [start |-> arguments[1], count |-> arguments[2],
   materialIndex |-> IF Len(arguments) >= 3 THEN arguments[3] ELSE 0]

\* The number of addGroup calls since the last clearGroups; without a
\* clearGroups, the calls of the constructor (six for a box) count as well.
RECURSIVE callsSinceClear(_, _)
callsSinceClear(g, calls) ==
  IF calls = <<>> THEN (IF g.type = "BoxGeometry" THEN 6 ELSE 0)
  ELSE IF calls[Len(calls)] = "clearGroups" THEN 0
  ELSE callsSinceClear(g, SubSeq(calls, 1, Len(calls) - 1)) + 1

\* Two groups of the list overlap.
overlapping(groups) ==
  \E i, j \in DOMAIN groups :
    /\ i < j
    /\ groups[i].start < groups[j].start + groups[j].count
    /\ groups[j].start < groups[i].start + groups[i].count

\* C11: in any sequence of addGroup and clearGroups calls, addGroup appends
\* exactly the record of its arguments (materialIndex 0 when omitted) at the
\* end of the list and leaves the records before it as they are, clearGroups
\* leaves the empty list, and so the list holds, in call order, one record
\* for each addGroup call since the last clearGroups (or since construction).
C11_GroupsAreTheCallsInOrder ==
  [][/\ history' = Append(history, "addGroup") =>
          geom'.groups = Append(geom.groups, groupOfCall(args'))
     /\ history' = Append(history, "clearGroups") => geom'.groups = <<>>
     /\ Len(geom'.groups) = callsSinceClear(geom', history')]_vars

\* addGroup without a materialIndex, after a clearGroups and another addGroup
\* whose range overlaps the new one.
C11_Witness ==
  /\ history = <<"clearGroups", "addGroup", "addGroup">>
  /\ Len(args) = 2
  /\ Len(geom.groups) = 2
  /\ geom.groups[1].materialIndex = 1
  /\ geom.groups[2] = [start |-> 1, count |-> 4, materialIndex |-> 0]
  /\ overlapping(geom.groups)

----------------------------------------------------------------------------
(* The attribute mapping under its four accessors, on geometries that have    *)
(* everything else: index, morph targets, groups, a draw range and computed   *)
(* bounding volumes.                                                          *)

\* The quad with a morph target, two groups, a draw range and both volumes.
QuadComplete ==
  computeBoundingSphere(
    computeBoundingBox(
      setDrawRange(
        addGroup(addGroup([QuadGeometry EXCEPT
                             !.morphAttributes = [name \in {"position"} |-> <<QuadMorph>>]],
                          0, 3, 0),
                 3, 3, 1),
        0, 3)))

InitSlots ==
  /\ geom \in {BufferGeometry, QuadComplete, computeBoundingSphere(computeBoundingBox(UnitBox))}
  /\ result = NoResult
  /\ console = <<>>
  /\ history = <<>>
  /\ args = <<>>
  /\ other = Null
  /\ objects = <<>>

NextSlots ==
  \/ SetAttribute
  \/ GetAttribute
  \/ HasAttribute
  \/ DeleteAttribute

SpecSlots == InitSlots /\ [][NextSlots]_vars

\* Geometries a and b differ at most in the slot `name` of the attributes.
sameExceptSlot(a, b, name) ==
  /\ [a EXCEPT !.attributes = NoAttributes] = [b EXCEPT !.attributes = NoAttributes]
  /\ DOMAIN a.attributes \ {name} = DOMAIN b.attributes \ {name}
  /\ \A n \in DOMAIN a.attributes \ {name} : a.attributes[n] = b.attributes[n]

\* C12: setAttribute and deleteAttribute change nothing but the named slot of
\* the attributes (index, other slots, morph attributes, groups, draw range,
\* boundingBox and boundingSphere stay as they were), getAttribute and
\* hasAttribute change nothing at all; after setAttribute(n, b)
\* getAttribute(n) is b and hasAttribute(n) holds, after deleteAttribute(n)
\* hasAttribute(n) does not, and the queries return what the slot holds.
C12_AccessorsTouchOnlyTheSlot ==
  [][/\ history' = Append(history, "setAttribute") =>
          /\ sameExceptSlot(geom, geom', args'[1])
          /\ getAttributeOrUndefined(geom', args'[1]) = Some(args'[2])
          /\ hasAttribute(geom', args'[1])
     /\ history' = Append(history, "deleteAttribute") =>
          /\ sameExceptSlot(geom, geom', args'[1])
          /\ ~hasAttribute(geom', args'[1])
          /\ getAttributeOrUndefined(geom', args'[1]) = Null
     /\ history' = Append(history, "getAttribute") =>
          /\ geom' = geom
          /\ result'.value = getAttributeOrUndefined(geom, args'[1])
     /\ history' = Append(history, "hasAttribute") =>
          /\ geom' = geom
          /\ result'.value = (args'[1] \in DOMAIN geom.attributes)]_vars

\* The position of a geometry with computed volumes has been replaced by
\* other data: the volumes are still those of the old data.
C12_Witness ==
  /\ history = <<"setAttribute">>
  /\ args = <<"position", TrianglePosition>>
  /\ geom.attributes["position"] = TrianglePosition
  /\ geom.boundingBox = QuadComplete.boundingBox
  /\ geom.boundingSphere = QuadComplete.boundingSphere
  /\ geom.attributes["position"] # QuadComplete.attributes["position"]
  /\ geom.index # Null
  /\ Len(geom.groups) = 2

----------------------------------------------------------------------------
(* setFromPoints. A point is <<x, y>> or <<x, y, z>>.                         *)

\* point.z || 0
zOrZero(point) == IF Len(point) >= 3 THEN point[3] ELSE 0

\* position.push(point.x, point.y, point.z || 0) for every point.
pushPoints(points) ==
  Flatten([i \in DOMAIN points |-> <<points[i][1], points[i][2], zOrZero(points[i])>>])

\* positionAttribute.setXYZ(i, ...) for i in [i, l).
RECURSIVE writePoints(_, _, _, _)
writePoints(attribute, points, i, l) ==
  IF i >= l THEN attribute
  ELSE LET point == points[i + 1]
           next == setXYZ(attribute, i, <<point[1], point[2], zOrZero(point)>>)
       IN IF evaluated(next) THEN writePoints(next, points, i + 1, l) ELSE attribute

\* A variant that replaces a buffer that is too small by one that fits.
setFromPointsGrowing(g, points) ==
  IF ~hasAttribute(g, "position") \/ Len(points) > count(g.attributes["position"])
  THEN [geometry |-> setAttribute(g, "position", Float32BufferAttribute(pushPoints(points), 3)),
        console |-> <<>>]
  ELSE [geometry |-> setAttribute(g, "position",
                       writePoints(g.attributes["position"], points, 0, Len(points))),
        console |-> <<>>]

\* setFromPoints(points): the geometry afterwards and what was reported.
setFromPoints(g, points) ==
  IF ~hasAttribute(g, "position")
  THEN [geometry |-> setAttribute(g, "position", Float32BufferAttribute(pushPoints(points), 3)),
        console |-> <<>>]
  ELSE LET positionAttribute == g.attributes["position"]
           l == Min(Len(points), count(positionAttribute))
       IN [geometry |-> setAttribute(g, "position", writePoints(positionAttribute, points, 0, l)),
           console |-> IF Len(points) > count(positionAttribute) THEN <<"warn">> ELSE <<>>]

PointInputs == {<<1, 2>>, <<3, 4, 5>>}
PointLists == UNION {[1..n -> PointInputs] : n \in 0..MaxPoints}

SetFromPoints ==
  /\ Len(history) < MaxSteps
  /\ \E points \in PointLists :
       LET r == setFromPoints(geom, points)
       IN Call("setFromPoints", <<points>>, r.geometry, NoResult, r.console)

SegmentPosition == Float32BufferAttribute(<<7, 7, 7, 8, 8, 8>>, 3)

InitPoints ==
  /\ geom \in {BufferGeometry,
               setAttribute(BufferGeometry, "position", SegmentPosition),
               computeBoundingBox(
                 setAttribute(setAttribute(setIndex(BufferGeometry, <<0, 1, 2>>),
                                           "position", TrianglePosition),
                              "uv", ArbitraryUv(3)))}
  /\ result = NoResult
  /\ console = <<>>
  /\ history = <<>>
  /\ args = <<>>
  /\ other = Null
  /\ objects = <<>>

NextPoints == SetFromPoints

SpecPoints == InitPoints /\ [][NextPoints]_vars

\* Vertices [from, to) of `new` are the points of the same numbers.
holdsPoints(new, points, from, to) ==
  \A i \in from..(to - 1) :
    fromBufferAttribute(new, i) = <<points[i + 1][1], points[i + 1][2], zOrZero(points[i + 1])>>

\* C13: setFromPoints(points) on a geometry with a position attribute of N
\* vertices writes the first min(points.length, N) points into vertices
\* 0..min-1 (z = 0 when absent), keeps the vertex count and every vertex at
\* or beyond points.length, and warns exactly when points.length > N; without
\* a position attribute it installs one of exactly points.length vertices
\* that holds the points. Nothing else of the geometry changes.
C13_SetFromPointsWritesWhatFits ==
  [][history' = Append(history, "setFromPoints") =>
       LET points == args'[1]
           new == geom'.attributes["position"]
       IN /\ sameExceptSlot(geom, geom', "position")
          /\ hasAttribute(geom', "position")
          /\ IF hasAttribute(geom, "position")
             THEN LET old == geom.attributes["position"]
                      N == count(old)
                      l == Min(Len(points), N)
                  IN /\ count(new) = N
                     /\ [new EXCEPT !.array = <<>>] = [old EXCEPT !.array = <<>>]
                     /\ holdsPoints(new, points, 0, l)
                     /\ \A i \in l..(N - 1) :
                          fromBufferAttribute(new, i) = fromBufferAttribute(old, i)
                     /\ (console' = <<"warn">>) <=> (Len(points) > N)
                     /\ console' # <<"warn">> => console' = <<>>
             ELSE /\ count(new) = Len(points)
                  /\ new.itemSize = 3
                  /\ holdsPoints(new, points, 0, Len(points))
                  /\ console' = <<>>]_vars

\* Four points on a buffer of three vertices: a warning, and the first three
\* points written, the second of them without z.
C13_Witness ==
  /\ history = <<"setFromPoints", "setFromPoints">>
  /\ Len(args[1]) = 4
  /\ console = <<"warn">>
  /\ count(geom.attributes["position"]) = 3
  /\ geom.attributes["position"].array = <<3, 4, 5, 1, 2, 0, 3, 4, 5>>
  /\ geom.boundingBox # Null

----------------------------------------------------------------------------
(* Two geometries and the objects they refer to.                              *)
(*                                                                            *)
(* Where two geometries exist, a geometry is a record of references: its      *)
(* index, every attribute, every morph target, its group array, its bounding  *)
(* box, its bounding sphere and its draw range are numbers of objects, and   *)
(* `objects` holds the contents of object k at position k.  An operation      *)
(* either writes into an object (every geometry that refers to the object     *)
(* sees the write) or makes a reference point to a new object.                *)

\* The order in which the attributes of a geometry are enumerated.
AttributeOrder == <<"position", "normal", "uv", "tangent">>
namesOf(attributes) == SelectSeq(AttributeOrder, LAMBDA n : n \in DOMAIN attributes)
positionIn(names, name) == CHOOSE k \in DOMAIN names : names[k] = name

\* The geometry that the references of r stand for.
valueOf(h, r) ==
  [type |-> r.type,
   parameters |-> r.parameters,
   index |-> IF r.index = Null THEN Null ELSE Some(h[Value(r.index)]),
   attributes |-> [n \in DOMAIN r.attributes |-> h[r.attributes[n]]],
   morphAttributes |->
     [n \in DOMAIN r.morphAttributes |->
        [i \in DOMAIN r.morphAttributes[n] |-> h[r.morphAttributes[n][i]]]],
   morphTargetsRelative |-> r.morphTargetsRelative,
   groups |-> h[r.groups],
   boundingBox |-> IF r.boundingBox = Null THEN Null ELSE Some(h[Value(r.boundingBox)]),
   boundingSphere |->
     IF r.boundingSphere = Null THEN Null ELSE Some(h[Value(r.boundingSphere)]),
   drawRange |-> h[r.drawRange]]

\* A geometry built by a constructor and the calls that fill it, with the
\* contents v: every part of it is a new object.
constructed(h, v) ==
  LET names == namesOf(v.attributes)
      morphs == morphAttributesPosition(v)
      atIndex == Len(h) + 2
      atAttributes == atIndex + (IF v.index = Null THEN 0 ELSE 1)
      atMorphs == atAttributes + Len(names)
      atBox == atMorphs + Len(morphs)
      atSphere == atBox + (IF v.boundingBox = Null THEN 0 ELSE 1)
  IN [objects |->
        h \o <<v.groups, v.drawRange>> \o v.index
          \o [k \in 1..Len(names) |-> v.attributes[names[k]]]
          \o morphs \o v.boundingBox \o v.boundingSphere,
      geometry |->
        [type |-> v.type,
         parameters |-> v.parameters,
         index |-> IF v.index = Null THEN Null ELSE Some(atIndex + 1),
         attributes |->
           [n \in DOMAIN v.attributes |-> atAttributes + positionIn(names, n)],
         morphAttributes |->
           [n \in DOMAIN v.morphAttributes |-> [i \in DOMAIN morphs |-> atMorphs + i]],
         morphTargetsRelative |-> v.morphTargetsRelative,
         groups |-> Len(h) + 1,
         boundingBox |-> IF v.boundingBox = Null THEN Null ELSE Some(atBox + 1),
         boundingSphere |-> IF v.boundingSphere = Null THEN Null ELSE Some(atSphere + 1),
         drawRange |-> Len(h) + 2]]

\* An operation that only writes into the objects of r, and leaves them with
\* the contents v.
written(h, r, v) ==
  [k \in DOMAIN h |->
     IF k = r.groups THEN v.groups
     ELSE IF k = r.drawRange THEN v.drawRange
     ELSE IF r.index # Null /\ k = Value(r.index) THEN Value(v.index)
     ELSE IF r.boundingBox # Null /\ k = Value(r.boundingBox) THEN Value(v.boundingBox)
     ELSE IF r.boundingSphere # Null /\ k = Value(r.boundingSphere)
          THEN Value(v.boundingSphere)
     ELSE IF \E n \in DOMAIN r.attributes : r.attributes[n] = k
          THEN v.attributes[CHOOSE n \in DOMAIN r.attributes : r.attributes[n] = k]
     ELSE h[k]]

\* this.attributes[name] = the object of number ref.
withSlot(r, name, ref) ==
  [r EXCEPT !.attributes =
     [n \in DOMAIN r.attributes \cup {name} |->
        IF n = name THEN ref ELSE r.attributes[n]]]

\* A variant of the attribute loop of copy that hands over the attributes of
\* the source themselves.
RECURSIVE shareAttributes(_, _, _, _)
shareAttributes(s, source, names, k) ==
  IF k > Len(names) THEN s
  ELSE LET next == [objects |-> s.objects,
                    geometry |-> withSlot(s.geometry, names[k],
                                          source.attributes[names[k]])]
       IN IF evaluated(next) THEN shareAttributes(next, source, names, k + 1) ELSE s

\* copy: this.setAttribute(name, attribute.clone(data)) for every attribute.
RECURSIVE cloneAttributes(_, _, _, _)
cloneAttributes(s, source, names, k) ==
  IF k > Len(names) THEN s
  ELSE LET next == [objects |-> Append(s.objects, s.objects[source.attributes[names[k]]]),
                    geometry |-> withSlot(s.geometry, names[k], Len(s.objects) + 1)]
       IN IF evaluated(next) THEN cloneAttributes(next, source, names, k + 1) ELSE s

\* copy: array.push(morphAttribute[i].clone(data)) for every morph target of
\* every name; this.morphAttributes[name] = array.
cloneMorphAttributes(s, source) ==
  [objects |->
     s.objects \o [i \in DOMAIN morphAttributesPosition(source) |->
                     s.objects[morphAttributesPosition(source)[i]]],
   geometry |->
     [s.geometry EXCEPT !.morphAttributes =
        [n \in DOMAIN source.morphAttributes |->
           [i \in DOMAIN source.morphAttributes[n] |-> Len(s.objects) + i]]]]

\* copy: this.addGroup(group.start, group.count, group.materialIndex) for
\* every group of the source, from group i on.
RECURSIVE pushGroups(_, _, _, _)
pushGroups(h, ref, groups, i) ==
  IF i > Len(groups) THEN h
  ELSE LET next == [h EXCEPT ![ref] =
                      Append(@, [start |-> groups[i].start, count |-> groups[i].count,
                                 materialIndex |-> groups[i].materialIndex])]
       IN IF evaluated(next) THEN pushGroups(next, ref, groups, i + 1) ELSE h

\* BufferGeometry.copy(source) on the geometry `this`.
copy(h, this, source) ==
  LET h0 == Append(h, <<>>)
      reset == [this EXCEPT !.index = Null,
                            !.attributes = NoAttributes,
                            !.morphAttributes = NoAttributes,
                            !.groups = Len(h) + 1,
                            !.boundingBox = Null,
                            !.boundingSphere = Null]
      s1 == IF source.index # Null
            THEN [objects |-> Append(h0, h0[Value(source.index)]),
                  geometry |-> [reset EXCEPT !.index = Some(Len(h0) + 1)]]
            ELSE [objects |-> h0, geometry |-> reset]
      s2 == cloneAttributes(s1, source, namesOf(source.attributes), 1)
      s3 == cloneMorphAttributes(s2, source)
      g4 == [s3.geometry EXCEPT !.morphTargetsRelative = source.morphTargetsRelative]
      h4 == pushGroups(s3.objects, g4.groups, s3.objects[source.groups], 1)
      s5 == IF source.boundingBox # Null
            THEN [objects |-> Append(h4, h4[Value(source.boundingBox)]),
                  geometry |-> [g4 EXCEPT !.boundingBox = Some(Len(h4) + 1)]]
            ELSE [objects |-> h4, geometry |-> g4]
      s6 == IF source.boundingSphere # Null
            THEN [objects |-> Append(s5.objects, s5.objects[Value(source.boundingSphere)]),
                  geometry |-> [s5.geometry EXCEPT
                                  !.boundingSphere = Some(Len(s5.objects) + 1)]]
            ELSE s5
  IN [objects |-> [s6.objects EXCEPT ![this.drawRange] =
                     [start |-> s6.objects[source.drawRange].start,
                      count |-> s6.objects[source.drawRange].count]],
      geometry |-> s6.geometry]

\* BoxGeometry.copy(source): super.copy(source), then
\* this.parameters = Object.assign({}, source.parameters).
copyBoxGeometry(h, this, source) ==
  LET s == copy(h, this, source)
  IN [objects |-> s.objects,
      geometry |-> [s.geometry EXCEPT !.parameters =
                      IF source.parameters = Null THEN Some(<<>>) ELSE source.parameters]]

\* this.copy(source), by the class of `this`.
copyOf(h, this, source) ==
  IF this.type = "BoxGeometry" THEN copyBoxGeometry(h, this, source)
  ELSE copy(h, this, source)

\* clone(): new this.constructor().copy(this); a BoxGeometry without
\* arguments is the box 1 x 1 x 1 with one segment each way.
clone(h, this) ==
  LET made == constructed(h, IF this.type = "BoxGeometry"
                             THEN BoxGeometry(PosDen, PosDen, PosDen, 1, 1, 1)
                             ELSE BufferGeometry)
  IN copyOf(made.objects, made.geometry, this)

\* The geometries that exist, and the one a name stands for.
Receivers == IF other = Null THEN {"geom"} ELSE {"geom", "other"}
the(receiver) == IF receiver = "geom" THEN geom ELSE Value(other)

\* A call of `name` on the geometry `receiver`, which leaves the objects h
\* and the receiver r; args holds the receiver before the arguments.
CallOn(receiver, name, arguments, h, r) ==
  /\ Len(history) < MaxSteps
  /\ objects' = h
  /\ IF receiver = "geom"
     THEN geom' = r /\ other' = other
     ELSE geom' = geom /\ other' = Some(r)
  /\ result' = NoResult
  /\ console' = <<>>
  /\ history' = Append(history, name)
  /\ args' = <<receiver>> \o arguments

\* other = geom.clone()
Clone ==
  /\ Len(history) < MaxSteps
  /\ LET s == clone(objects, geom)
     IN CallOn("other", "clone", <<>>, s.objects, s.geometry)

\* other.copy(geom)
Copy ==
  /\ Len(history) < MaxSteps
  /\ other # Null
  /\ LET s == copyOf(objects, Value(other), geom)
     IN CallOn("other", "copy", <<>>, s.objects, s.geometry)

AddGroupOn ==
  /\ Len(history) < MaxSteps
  /\ \E receiver \in Receivers :
       LET r == the(receiver)
       IN CallOn(receiver, "addGroup", <<1, 4>>,
                 written(objects, r, addGroupCall(valueOf(objects, r), <<1, 4>>)), r)

\* this.groups = []: a new array.
ClearGroupsOn ==
  /\ Len(history) < MaxSteps
  /\ \E receiver \in Receivers :
       CallOn(receiver, "clearGroups", <<>>, Append(objects, <<>>),
              [the(receiver) EXCEPT !.groups = Len(objects) + 1])

SetDrawRangeOn ==
  /\ Len(history) < MaxSteps
  /\ \E receiver \in Receivers :
       LET r == the(receiver)
       IN CallOn(receiver, "setDrawRange", <<1, 2>>,
                 written(objects, r, setDrawRange(valueOf(objects, r), 1, 2)), r)

\* setAttribute(name, attribute) with an attribute that no geometry holds yet.
SetAttributeOn ==
  /\ Len(history) < MaxSteps
  /\ \E receiver \in Receivers :
       \E name \in {"position", "normal"} :
         \E attribute \in AttributeInputs[name] :
           CallOn(receiver, "setAttribute", <<name, attribute>>,
                  Append(objects, attribute),
                  withSlot(the(receiver), name, Len(objects) + 1))

DeleteAttributeOn ==
  /\ Len(history) < MaxSteps
  /\ \E receiver \in Receivers :
       LET r == the(receiver)
       IN \E name \in DOMAIN r.attributes \cap {"position", "normal"} :
            CallOn(receiver, "deleteAttribute", <<name>>, objects,
                   [r EXCEPT !.attributes =
                      [n \in DOMAIN r.attributes \ {name} |-> r.attributes[n]]])

\* applyMatrix4 writes into the position, normal and tangent attributes and
\* into the bounding volumes that exist.
ApplyMatrix4On ==
  /\ Len(history) < MaxSteps
  /\ \E receiver \in Receivers :
       LET r == the(receiver)
           v == valueOf(objects, r)
       IN /\ volumesReadable(v)
          /\ CallOn(receiver, "applyMatrix4", <<ShearMatrix>>,
                    written(objects, r, applyMatrix4(v, ShearMatrix)), r)

\* computeVertexNormals writes into the normal attribute, or sets a new one
\* where there is none.
ComputeVertexNormalsOn ==
  /\ Len(history) < MaxSteps
  /\ \E receiver \in Receivers :
       LET r == the(receiver)
           v == valueOf(objects, r)
       IN /\ normalsReadable(v)
          /\ IF hasAttribute(v, "position") /\ ~hasAttribute(v, "normal")
             THEN CallOn(receiver, "computeVertexNormals", <<>>,
                         Append(objects, computeVertexNormals(v).attributes["normal"]),
                         withSlot(r, "normal", Len(objects) + 1))
             ELSE CallOn(receiver, "computeVertexNormals", <<>>,
                         written(objects, r, computeVertexNormals(v)), r)

\* A triangle with a morph target, a group and a bounding box.
TriangleComplete ==
  computeBoundingBox(
    addGroup([setAttribute(setIndex(BufferGeometry, <<0, 1, 2>>), "position",
                           TrianglePosition)
                EXCEPT !.morphAttributes = [name \in {"position"} |-> <<ArbitraryMorph(3)>>],
                       !.morphTargetsRelative = TRUE],
             0, 3, 2))

InitCopy ==
  /\ \E a \in {QuadComplete, computeBoundingSphere(UnitBox)} :
       \E b \in {Null, Some(UnitBox), Some(TriangleComplete)} :
         LET first == constructed(<<>>, a)
             second == constructed(first.objects, Value(b))
         IN /\ geom = first.geometry
            /\ other = IF b = Null THEN Null ELSE Some(second.geometry)
            /\ objects = IF b = Null THEN first.objects ELSE second.objects
  /\ result = NoResult
  /\ console = <<>>
  /\ history = <<>>
  /\ args = <<>>

NextCopy ==
  \/ Clone
  \/ Copy
  \/ AddGroupOn
  \/ ClearGroupsOn
  \/ SetDrawRangeOn
  \/ SetAttributeOn
  \/ DeleteAttributeOn
  \/ ApplyMatrix4On
  \/ ComputeVertexNormalsOn

SpecCopy == InitCopy /\ [][NextCopy]_vars

\* What copy is to carry over: everything but the class and its parameters.
copied(v) == [v EXCEPT !.type = "", !.parameters = Null]

\* No object is referred to by both geometries.
refsOf(r) ==
  {r.groups, r.drawRange}
    \cup {r.index[k] : k \in DOMAIN r.index}
    \cup {r.boundingBox[k] : k \in DOMAIN r.boundingBox}
    \cup {r.boundingSphere[k] : k \in DOMAIN r.boundingSphere}
    \cup {r.attributes[n] : n \in DOMAIN r.attributes}
    \cup UNION {{r.morphAttributes[n][i] : i \in DOMAIN r.morphAttributes[n]} :
                  n \in DOMAIN r.morphAttributes}

\* C14: after other = geom.clone() or other.copy(geom), whatever `other` held
\* before, the index, attributes, morph attributes, morphTargetsRelative,
\* groups, bounding volumes and draw range of `other` equal those of `geom`,
\* `geom` is as it was, and the two share no object; and every later
\* addGroup, clearGroups, setDrawRange, setAttribute, deleteAttribute,
\* applyMatrix4 or computeVertexNormals on one of the two leaves every field
\* of the other one as it was.
C14_CopyIsDeepAndIndependent ==
  [][/\ history' \in {Append(history, "clone"), Append(history, "copy")} =>
          /\ copied(valueOf(objects', Value(other'))) = copied(valueOf(objects', geom'))
          /\ valueOf(objects', geom') = valueOf(objects, geom)
          /\ refsOf(geom') \cap refsOf(Value(other')) = {}
     /\ (/\ history' # history
         /\ history' \notin {Append(history, "clone"), Append(history, "copy")}
         /\ other # Null) =>
          IF args'[1] = "other"
          THEN valueOf(objects', geom') = valueOf(objects, geom)
          ELSE valueOf(objects', Value(other')) = valueOf(objects, Value(other))]_vars

\* A BoxGeometry with its six groups has copied the quad and has then been
\* transformed: it holds the quad's two groups, its own position data have
\* moved, and the quad is what it was.
C14_Witness ==
  /\ history = <<"copy", "applyMatrix4">>
  /\ args[1] = "other"
  /\ Value(other).type = "BoxGeometry"
  /\ Len(valueOf(objects, Value(other)).groups) = 2
  /\ valueOf(objects, geom) = QuadComplete
  /\ valueOf(objects, Value(other)).attributes["position"] # QuadComplete.attributes["position"]
  /\ valueOf(objects, Value(other)).boundingBox # QuadComplete.boundingBox

----------------------------------------------------------------------------
(* The vertex normals of an indexed geometry as sums of face normals.         *)

\* The face normal of the triangle that index entry k belongs to.
faceNormalAt(g, k) ==
  LET index == Value(g.index)
      first == 3 * (k \div 3)
  IN faceNormal(g.attributes["position"],
                getX(index, first), getX(index, first + 1), getX(index, first + 2))

\* The sum of the face normals over the index entries from k on that are v.
RECURSIVE faceNormalSum(_, _, _)
faceNormalSum(g, v, k) ==
  IF k >= count(Value(g.index)) THEN <<0, 0, 0>>
  ELSE addVectors(IF getX(Value(g.index), k) = v THEN faceNormalAt(g, k) ELSE <<0, 0, 0>>,
                  faceNormalSum(g, v, k + 1))

\* The number of index entries that are v.
occurrences(g, v) ==
  Cardinality({k \in DOMAIN Value(g.index).array : Value(g.index).array[k] = v})

\* C15: for an indexed geometry, computeVertexNormals leaves at every vertex
\* v, before the final normalization, the sum of the face normals
\* (pC - pB) x (pA - pB) over every occurrence of v in the index taken in
\* consecutive triples, whatever the normal attribute held before, also for
\* vertices of several triangles and for triangles that name a vertex at two
\* or three corners; the normals it ends with are those sums, normalized.
C15_VertexNormalIsSumOfFaceNormals ==
  [][(/\ history' = Append(history, "computeVertexNormals")
      /\ geom.index # Null
      /\ hasAttribute(geom, "position")) =>
       \A v \in 0..(count(geom.attributes["position"]) - 1) :
         /\ fromBufferAttribute(accumulatedNormals(geom), v) = faceNormalSum(geom, v, 0)
         /\ fromBufferAttribute(geom'.attributes["normal"], v)
              = normalize(faceNormalSum(geom, v, 0))]_vars

\* Two triangles of different planes share vertices 1 and 2: vertex 1 has
\* the direction of the sum of both face normals.
C15_Witness ==
  /\ history = <<"computeVertexNormals">>
  /\ geom.index # Null
  /\ Value(geom.index).array = <<0, 1, 2, 2, 1, 3>>
  /\ occurrences(geom, 1) = 2
  /\ faceNormalAt(geom, 0) = <<0, 0, 4>>
  /\ faceNormalAt(geom, 3) = <<-4, -4, -4>>
  /\ fromBufferAttribute(geom.attributes["normal"], 0) = <<0, 0, 1>>
  /\ fromBufferAttribute(geom.attributes["normal"], 1) = <<-1, -1, 0>>
  /\ fromBufferAttribute(geom.attributes["normal"], 3) = <<-1, -1, -1>>

----------------------------------------------------------------------------
(* The tangent totals of meshes with degenerate uv triangles, with and        *)
(* without draw groups.                                                       *)

NextTangentTotals ==
  \/ AddGroup
  \/ ComputeTangents

SpecTangentTotals == InitTangents /\ [][NextTangentTotals]_vars

\* The index entries at which the triangles of the passes start, group by
\* group: those of the draw groups, or of the whole index.
triangleStarts(g) ==
  Flatten([i \in DOMAIN tangentGroups(g) |->
             [k \in 1..(tangentGroups(g)[i].count \div 3) |->
                tangentGroups(g)[i].start + 3 * (k - 1)]])

\* The triangle at index entry j is degenerate in uv: r is not finite.
degenerateAt(g, j) ==
  LET x == Value(g.index)
  IN uvDeterminant(g.attributes["uv"], getX(x, j), getX(x, j + 1), getX(x, j + 2)) = 0

\* What the triangle at index entry j gives vertex v: its direction (sdir or
\* tdir) once for every corner that is v, or nothing if it is degenerate.
contributionAt(g, v, j, which) ==
  LET x == Value(g.index)
      corners == Cardinality({c \in 0..2 : getX(x, j + c) = v})
      dirs == triangleDirections(g.attributes["position"], g.attributes["uv"],
                                 getX(x, j), getX(x, j + 1), getX(x, j + 2))
      dir == IF which = "tan1" THEN dirs.sdir ELSE dirs.tdir
  IN IF degenerateAt(g, j) \/ corners = 0 THEN RatZero
     ELSE Rat(multiplyScalar(dir.n, corners), dir.d)

RECURSIVE contributionSum(_, _, _, _, _)
contributionSum(g, v, starts, k, which) ==
  IF k > Len(starts) THEN RatZero
  ELSE RatAdd(contributionAt(g, v, starts[k], which),
              contributionSum(g, v, starts, k + 1, which))

\* The vertices the passes visit.
visitedVertices(g) ==
  {getX(Value(g.index), triangleStarts(g)[k] + c) :
     k \in DOMAIN triangleStarts(g), c \in 0..2}

----------------------------------------------------------------------------
(* The index and the draw groups of a box.                                    *)

\* The groups follow one another from index entry 0 to the end of the index.
groupsTile(g) ==
  /\ g.groups[1].start = 0
  /\ \A i \in 1..(Len(g.groups) - 1) :
       g.groups[i + 1].start = g.groups[i].start + g.groups[i].count
  /\ g.groups[Len(g.groups)].start + g.groups[Len(g.groups)].count = count(Value(g.index))

\* The groups whose range holds index entry k.
groupsOfEntry(g, k) ==
  {i \in DOMAIN g.groups : g.groups[i].start <= k /\ k < g.groups[i].start + g.groups[i].count}

\* C17: in every BoxGeometry built with positive integer segment counts,
\* position, normal and uv have the same vertex count, every value of the
\* index is a vertex offset below that count, and the six draw groups tile the
\* index: the first starts at 0, each starts where the one before ends, the
\* last ends at the index count, and so every index entry is in exactly one
\* group.
C17_BoxIndexValidAndGroupsTile ==
  LET vertices == count(geom.attributes["position"])
      index == Value(geom.index)
  IN /\ count(geom.attributes["normal"]) = vertices
     /\ count(geom.attributes["uv"]) = vertices
     /\ Len(geom.attributes["position"].array) = 3 * vertices
     /\ Len(geom.attributes["uv"].array) = 2 * vertices
     /\ \A k \in 0..(count(index) - 1) : getX(index, k) \in 0..(vertices - 1)
     /\ Len(geom.groups) = 6
     /\ groupsTile(geom)
     /\ \A k \in 0..(count(index) - 1) : Cardinality(groupsOfEntry(geom, k)) = 1

\* The box with segment counts 2, 1, 2: 42 vertices, the largest index value
\* is 41, and the groups of 12, 12, 24, 24, 12, 12 entries end at entry 96.
C17_Witness ==
  /\ Value(geom.parameters).widthSegments = 2
  /\ Value(geom.parameters).heightSegments = 1
  /\ Value(geom.parameters).depthSegments = 2
  /\ count(geom.attributes["position"]) = 42
  /\ \E k \in 0..(count(Value(geom.index)) - 1) : getX(Value(geom.index), k) = 41
  /\ [i \in 1..6 |-> geom.groups[i].start] = <<0, 12, 24, 48, 72, 84>>
  /\ count(Value(geom.index)) = 96

====
